---- MODULE Spec2Model ----
(***************************************************************************)
(* Rule engines of shogi-ai-pytorch: 本将棋 (full shogi, 9x9) and           *)
(* どうぶつしょうぎ (animal shogi, 3x4).  Boards, move codec, move           *)
(* generation, move application and terminal detection are translated      *)
(* from src/src/shogi_ai/game/{full_shogi,animal_shogi}/*.py.               *)
(*                                                                         *)
(* Python tuples and lists are sequences; squares are functions over       *)
(* 0..NUM_SQUARES-1 so that the row-major index arithmetic of the source   *)
(* is kept; hands[player.value] is hands[player + 1].                      *)
(***************************************************************************)
EXTENDS Integers, Sequences, FiniteSets, TLC

VARIABLES variant, board, current_player, move_count, legal, scenario, last_move,
          codec, outcome, mcts, minimax, selfplay, arena, trainer

vars == <<variant, board, current_player, move_count, legal, scenario, last_move,
          codec, outcome, mcts, minimax, selfplay, arena, trainer>>

(***************************************************************************)
(* Generic helpers for Python list idioms.                                 *)
(***************************************************************************)
RECURSIVE FlattenFrom(_, _)
FlattenFrom(ss, i) ==
    IF i > Len(ss) THEN <<>> ELSE ss[i] \o FlattenFrom(ss, i + 1)

Flatten(ss) == FlattenFrom(ss, 1)

Range(s) == {s[i] : i \in 1..Len(s)}

Count(s, x) == Cardinality({i \in 1..Len(s) : s[i] = x})

\* list.sort() on a list of IntEnum values (ascending).
ListSort(s) == SortSeq(s, LAMBDA a, b : a < b)

\* list.remove(x): removes the first occurrence; ValueError when absent is
\* modelled by the caller's guard (RemoveFirst is only applied when x is in s).
RemoveFirst(s, x) ==
    LET k == CHOOSE i \in 1..Len(s) : s[i] = x /\ \A j \in 1..(i - 1) : s[j] # x
    IN  SubSeq(s, 1, k - 1) \o SubSeq(s, k + 1, Len(s))

\* Python's None for Optional[Piece] and Optional[int].
None == [piece_type |-> -1, owner |-> -1]

NoIndex == -1

NoWinner == -1

Piece(pt, owner) == [piece_type |-> pt, owner |-> owner]

\* Player (both variants): SENTE = 0, GOTE = 1, opponent = Player(1 - value).
SENTE == 0

GOTE == 1

Player == {SENTE, GOTE}

opponent(p) == 1 - p

(***************************************************************************)
(* full_shogi/types.py                                                     *)
(***************************************************************************)
full_ROWS == 9

full_COLS == 9

full_NUM_SQUARES == full_ROWS * full_COLS

PAWN == 0

LANCE == 1

KNIGHT == 2

SILVER == 3

GOLD == 4

BISHOP == 5

ROOK == 6

KING == 7

PRO_PAWN == 8

PRO_LANCE == 9

PRO_KNIGHT == 10

PRO_SILVER == 11

HORSE == 12

DRAGON == 13

full_PieceType == 0..13

\* PROMOTION_MAP as its key set and its lookup.
full_PROMOTABLE == {PAWN, LANCE, KNIGHT, SILVER, BISHOP, ROOK}

full_PROMOTION_MAP(pt) ==
    CASE pt = PAWN   -> PRO_PAWN
      [] pt = LANCE  -> PRO_LANCE
      [] pt = KNIGHT -> PRO_KNIGHT
      [] pt = SILVER -> PRO_SILVER
      [] pt = BISHOP -> HORSE
      [] pt = ROOK   -> DRAGON

\* UNPROMOTION_MAP.get(piece_type, piece_type)
full_UNPROMOTION_MAP_get(pt) ==
    CASE pt = PRO_PAWN   -> PAWN
      [] pt = PRO_LANCE  -> LANCE
      [] pt = PRO_KNIGHT -> KNIGHT
      [] pt = PRO_SILVER -> SILVER
      [] pt = HORSE      -> BISHOP
      [] pt = DRAGON     -> ROOK
      [] OTHER           -> pt

full_HAND_PIECE_TYPES == <<PAWN, LANCE, KNIGHT, SILVER, GOLD, BISHOP, ROOK>>

full_GOLD_STEPS == << <<-1, -1>>, <<-1, 0>>, <<-1, 1>>, <<0, -1>>, <<0, 1>>, <<1, 0>> >>

\* STEP_MOVES[pt]; the empty list stands for "pt not in STEP_MOVES".
full_STEP_MOVES(pt) ==
    CASE pt = PAWN   -> << <<-1, 0>> >>
      [] pt = SILVER -> << <<-1, -1>>, <<-1, 0>>, <<-1, 1>>, <<1, -1>>, <<1, 1>> >>
      [] pt = GOLD   -> full_GOLD_STEPS
      [] pt = KING   -> << <<-1, -1>>, <<-1, 0>>, <<-1, 1>>, <<0, -1>>, <<0, 1>>,
                           <<1, -1>>, <<1, 0>>, <<1, 1>> >>
      [] pt \in {PRO_PAWN, PRO_LANCE, PRO_KNIGHT, PRO_SILVER} -> full_GOLD_STEPS
      [] OTHER -> <<>>

full_KNIGHT_MOVES == << <<-2, -1>>, <<-2, 1>> >>

\* SLIDE_MOVES[pt]; the empty list stands for "pt not in SLIDE_MOVES".
full_SLIDE_MOVES(pt) ==
    CASE pt = LANCE -> << <<-1, 0>> >>
      [] pt \in {BISHOP, HORSE} -> << <<-1, -1>>, <<-1, 1>>, <<1, -1>>, <<1, 1>> >>
      [] pt \in {ROOK, DRAGON}  -> << <<-1, 0>>, <<1, 0>>, <<0, -1>>, <<0, 1>> >>
      [] OTHER -> <<>>

\* Faulty variant of HORSE_EXTRA_STEPS: two diagonal steps, which the slides
\* already cover.
full_HORSE_EXTRA_STEPS_diagonal == <<<<-1, -1>>, <<1, 1>>, <<0, -1>>, <<0, 1>>>>

full_HORSE_EXTRA_STEPS == << <<-1, 0>>, <<1, 0>>, <<0, -1>>, <<0, 1>> >>

full_DRAGON_EXTRA_STEPS == << <<-1, -1>>, <<-1, 1>>, <<1, -1>>, <<1, 1>> >>

(***************************************************************************)
(* full_shogi/board.py                                                     *)
(***************************************************************************)
full_back_rank == <<LANCE, KNIGHT, SILVER, GOLD, KING, GOLD, SILVER, KNIGHT, LANCE>>

full_initial_squares ==
    [idx \in 0..(full_NUM_SQUARES - 1) |->
        LET r == idx \div full_COLS
            c == idx % full_COLS
        IN  CASE r = 0 -> Piece(full_back_rank[c + 1], GOTE)
              [] r = 1 /\ c = 1 -> Piece(ROOK, GOTE)
              [] r = 1 /\ c = 7 -> Piece(BISHOP, GOTE)
              [] r = 2 -> Piece(PAWN, GOTE)
              [] r = 6 -> Piece(PAWN, SENTE)
              [] r = 7 /\ c = 1 -> Piece(BISHOP, SENTE)
              [] r = 7 /\ c = 7 -> Piece(ROOK, SENTE)
              [] r = 8 -> Piece(full_back_rank[c + 1], SENTE)
              [] OTHER -> None]

full_Board == [squares |-> full_initial_squares, hands |-> << <<>>, <<>> >>]

full_piece_at(b, row, col) == b.squares[row * full_COLS + col]

full_set_piece(b, row, col, piece) ==
    [b EXCEPT !.squares[row * full_COLS + col] = piece]

\* Faulty variant of add_to_hand: the captured kind is stored as it stood on
\* the board.
full_add_to_hand_as_is(b, player, piece_type) ==
    [b EXCEPT !.hands[player + 1] = ListSort(Append(@, piece_type))]

full_add_to_hand(b, player, piece_type) ==
    [b EXCEPT !.hands[player + 1] =
        ListSort(Append(@, full_UNPROMOTION_MAP_get(piece_type)))]

full_remove_from_hand(b, player, piece_type) ==
    [b EXCEPT !.hands[player + 1] = RemoveFirst(@, piece_type)]

full_find_king(b, player) ==
    LET ks == {idx \in 0..(full_NUM_SQUARES - 1) :
                  b.squares[idx] = Piece(KING, player)}
    IN  IF ks = {} THEN NoIndex
        ELSE CHOOSE idx \in ks : \A j \in ks : idx <= j

\* Faulty variant of count_pawns_in_column: the promoted pawns are counted
\* in place of the unpromoted ones.
full_count_pawns_in_column_promoted(b, player, col) ==
    Cardinality({r \in 0..(full_ROWS - 1) :
                    full_piece_at(b, r, col) = Piece(PRO_PAWN, player)})

full_count_pawns_in_column(b, player, col) ==
    Cardinality({r \in 0..(full_ROWS - 1) :
                    full_piece_at(b, r, col) = Piece(PAWN, player)})

(***************************************************************************)
(* full_shogi/moves.py                                                     *)
(***************************************************************************)
full_ACTION_SPACE == 13689

full_BOARD_MOVE_BASE == 0

full_PROMO_MOVE_BASE == full_NUM_SQUARES * full_NUM_SQUARES

full_DROP_MOVE_BASE == 2 * full_NUM_SQUARES * full_NUM_SQUARES

full_encode_board_move(from_idx, to_idx, promote) ==
    IF promote
    THEN full_PROMO_MOVE_BASE + from_idx * full_NUM_SQUARES + to_idx
    ELSE from_idx * full_NUM_SQUARES + to_idx

\* HAND_PIECE_TYPES.index(piece_type), 0-based.
full_hand_index(piece_type) ==
    (CHOOSE i \in 1..Len(full_HAND_PIECE_TYPES) :
        full_HAND_PIECE_TYPES[i] = piece_type) - 1

\* Faulty variant of encode_drop_move: the kinds are spaced by the board
\* width instead of the number of squares.
full_encode_drop_move_narrow(piece_type, to_idx) ==
    full_DROP_MOVE_BASE + full_hand_index(piece_type) * full_COLS + to_idx

full_encode_drop_move(piece_type, to_idx) ==
    full_DROP_MOVE_BASE + full_hand_index(piece_type) * full_NUM_SQUARES + to_idx

\* decode_move: "from"/"to" are (row, col) pairs; a drop has no "from" and no
\* "promote" key, a board move has no "piece_type" key.
full_decode_move(move) ==
    IF move < full_PROMO_MOVE_BASE THEN
        LET from_idx == move \div full_NUM_SQUARES
            to_idx == move % full_NUM_SQUARES
        IN  [type |-> "board",
             from |-> <<from_idx \div full_COLS, from_idx % full_COLS>>,
             to |-> <<to_idx \div full_COLS, to_idx % full_COLS>>,
             promote |-> FALSE]
    ELSE IF move < full_DROP_MOVE_BASE THEN
        LET adjusted == move - full_PROMO_MOVE_BASE
            from_idx == adjusted \div full_NUM_SQUARES
            to_idx == adjusted % full_NUM_SQUARES
        IN  [type |-> "board",
             from |-> <<from_idx \div full_COLS, from_idx % full_COLS>>,
             to |-> <<to_idx \div full_COLS, to_idx % full_COLS>>,
             promote |-> TRUE]
    ELSE
        LET adjusted == move - full_DROP_MOVE_BASE
            pt_index == adjusted \div full_NUM_SQUARES
            to_idx == adjusted % full_NUM_SQUARES
        IN  [type |-> "drop",
             piece_type |-> full_HAND_PIECE_TYPES[pt_index + 1],
             to |-> <<to_idx \div full_COLS, to_idx % full_COLS>>]

full_in_promotion_zone(player, row) ==
    IF player = SENTE THEN row <= 2 ELSE row >= 6

\* Faulty variant of _must_promote: only the pawn is forced to promote.
full_must_promote_pawn_only(piece_type, player, dest_row) ==
    /\ piece_type = PAWN
    /\ IF player = SENTE THEN dest_row = 0 ELSE dest_row = full_ROWS - 1

\* Faulty variant of _must_promote: no piece is ever forced to promote.
full_must_promote_never(piece_type, player, dest_row) == FALSE

full_must_promote(piece_type, player, dest_row) ==
    IF piece_type = PAWN \/ piece_type = LANCE THEN
        (IF player = SENTE THEN dest_row = 0 ELSE dest_row = 8)
    ELSE IF piece_type = KNIGHT THEN
        (IF player = SENTE THEN dest_row <= 1 ELSE dest_row >= 7)
    ELSE FALSE

\* Faulty variant of _add_move_with_promotion: only the destination row is
\* tested against the promotion zone.
full_add_move_with_promotion_dest_only(from_idx, to_idx, piece_type, player, from_row, to_row) ==
    LET can_promote == piece_type \in full_PROMOTABLE
        in_promotion_zone == full_in_promotion_zone(player, to_row)
        must_promote == full_must_promote(piece_type, player, to_row)
    IN  IF can_promote /\ in_promotion_zone THEN
            <<full_encode_board_move(from_idx, to_idx, TRUE)>>
            \o (IF ~must_promote
                THEN <<full_encode_board_move(from_idx, to_idx, FALSE)>>
                ELSE <<>>)
        ELSE IF ~must_promote THEN
            <<full_encode_board_move(from_idx, to_idx, FALSE)>>
        ELSE <<>>

\* The moves _add_move_with_promotion appends to `moves`, in order.
full_add_move_with_promotion(from_idx, to_idx, piece_type, player, from_row, to_row) ==
    LET can_promote == piece_type \in full_PROMOTABLE
        in_promotion_zone == full_in_promotion_zone(player, from_row)
                             \/ full_in_promotion_zone(player, to_row)
        must_promote == full_must_promote(piece_type, player, to_row)
    IN  IF can_promote /\ in_promotion_zone THEN
            <<full_encode_board_move(from_idx, to_idx, TRUE)>>
            \o (IF ~must_promote
                THEN <<full_encode_board_move(from_idx, to_idx, FALSE)>>
                ELSE <<>>)
        ELSE IF ~must_promote THEN
            <<full_encode_board_move(from_idx, to_idx, FALSE)>>
        ELSE <<>>

full_on_board(nr, nc) == 0 <= nr /\ nr < full_ROWS /\ 0 <= nc /\ nc < full_COLS

\* One iteration of the step loop / knight loop of _generate_board_moves:
\* only the row delta is negated for GOTE.
full_step_move(b, player, idx, pt, d) ==
    LET row == idx \div full_COLS
        col == idx % full_COLS
        dr == IF player = GOTE THEN -d[1] ELSE d[1]
        nr == row + dr
        nc == col + d[2]
    IN  IF full_on_board(nr, nc)
           /\ (full_piece_at(b, nr, nc) = None
               \/ full_piece_at(b, nr, nc).owner # player)
        THEN full_add_move_with_promotion(idx, nr * full_COLS + nc, pt, player, row, nr)
        ELSE <<>>

\* The while loop of the slide branch, entered at (nr, nc).
RECURSIVE full_slide_from(_, _, _, _, _, _, _, _)
full_slide_from(b, player, idx, pt, nr, nc, dr, dc) ==
    IF ~full_on_board(nr, nc) THEN <<>>
    ELSE LET target == full_piece_at(b, nr, nc)
         IN  IF target # None /\ target.owner = player THEN <<>>
             ELSE full_add_move_with_promotion(idx, nr * full_COLS + nc, pt, player,
                                               idx \div full_COLS, nr)
                  \o (IF target # None THEN <<>>
                      ELSE full_slide_from(b, player, idx, pt, nr + dr, nc + dc, dr, dc))

\* One iteration of the slide loop: both deltas are negated for GOTE.
full_slide_move(b, player, idx, pt, d) ==
    LET dr == IF player = GOTE THEN -d[1] ELSE d[1]
        dc == IF player = GOTE THEN -d[2] ELSE d[2]
    IN  full_slide_from(b, player, idx, pt,
                        (idx \div full_COLS) + dr, (idx % full_COLS) + dc, dr, dc)

\* One iteration of the HORSE / DRAGON extra-step loops: no promotion variant.
full_extra_step_move(b, player, idx, d) ==
    LET row == idx \div full_COLS
        col == idx % full_COLS
        dr == IF player = GOTE THEN -d[1] ELSE d[1]
        nr == row + dr
        nc == col + d[2]
    IN  IF full_on_board(nr, nc)
           /\ (full_piece_at(b, nr, nc) = None
               \/ full_piece_at(b, nr, nc).owner # player)
        THEN <<full_encode_board_move(idx, nr * full_COLS + nc, FALSE)>>
        ELSE <<>>

\* The body of the `for idx` loop of _generate_board_moves for one square.
full_piece_moves(b, player, idx) ==
    LET piece == b.squares[idx]
        pt == piece.piece_type
    IN  IF piece = None \/ piece.owner # player THEN <<>>
        ELSE
            Flatten([i \in 1..Len(full_STEP_MOVES(pt)) |->
                        full_step_move(b, player, idx, pt, full_STEP_MOVES(pt)[i])])
            \o (IF pt = KNIGHT
                THEN Flatten([i \in 1..Len(full_KNIGHT_MOVES) |->
                        full_step_move(b, player, idx, pt, full_KNIGHT_MOVES[i])])
                ELSE <<>>)
            \o Flatten([i \in 1..Len(full_SLIDE_MOVES(pt)) |->
                        full_slide_move(b, player, idx, pt, full_SLIDE_MOVES(pt)[i])])
            \o (IF pt = HORSE
                THEN Flatten([i \in 1..Len(full_HORSE_EXTRA_STEPS) |->
                        full_extra_step_move(b, player, idx, full_HORSE_EXTRA_STEPS[i])])
                ELSE <<>>)
            \o (IF pt = DRAGON
                THEN Flatten([i \in 1..Len(full_DRAGON_EXTRA_STEPS) |->
                        full_extra_step_move(b, player, idx, full_DRAGON_EXTRA_STEPS[i])])
                ELSE <<>>)

full_generate_board_moves(b, player) ==
    Flatten([k \in 1..full_NUM_SQUARES |-> full_piece_moves(b, player, k - 1)])

\* set(hand) iterated: CPython iterates a set of small IntEnum values in
\* ascending value order.
full_unique_in_hand(hand) ==
    SelectSeq(full_HAND_PIECE_TYPES, LAMBDA pt : pt \in Range(hand))

\* Faulty variant of the drop loop body: the nifu test is missing.
full_drop_move_no_nifu(b, player, pt, idx) ==
    LET row == idx \div full_ROWS
    IN  IF b.squares[idx] # None THEN <<>>
        ELSE IF (pt = PAWN \/ pt = LANCE)
                /\ ((player = SENTE /\ row = 0) \/ (player = GOTE /\ row = 8)) THEN <<>>
        ELSE IF pt = KNIGHT
                /\ ((player = SENTE /\ row <= 1) \/ (player = GOTE /\ row >= 7)) THEN <<>>
        ELSE <<full_encode_drop_move(pt, idx)>>

\* Faulty variant of the drop loop body: the knight's second rank is not
\* excluded.
full_drop_move_knight_one_rank(b, player, pt, idx) ==
    LET row == idx \div full_ROWS
        col == idx % full_COLS
    IN  IF b.squares[idx] # None THEN <<>>
        ELSE IF pt = PAWN /\ full_count_pawns_in_column(b, player, col) > 0 THEN <<>>
        ELSE IF (pt = PAWN \/ pt = LANCE \/ pt = KNIGHT)
                /\ ((player = SENTE /\ row = 0) \/ (player = GOTE /\ row = 8)) THEN <<>>
        ELSE <<full_encode_drop_move(pt, idx)>>

\* The body of the inner loop of _generate_drop_moves for kind pt and square idx.
full_drop_move(b, player, pt, idx) ==
    LET row == idx \div full_ROWS
        col == idx % full_COLS
    IN  IF b.squares[idx] # None THEN <<>>
        ELSE IF pt = PAWN /\ full_count_pawns_in_column(b, player, col) > 0 THEN <<>>
        ELSE IF (pt = PAWN \/ pt = LANCE)
                /\ ((player = SENTE /\ row = 0) \/ (player = GOTE /\ row = 8)) THEN <<>>
        ELSE IF pt = KNIGHT
                /\ ((player = SENTE /\ row <= 1) \/ (player = GOTE /\ row >= 7)) THEN <<>>
        ELSE <<full_encode_drop_move(pt, idx)>>

full_generate_drop_moves(b, player) ==
    LET unique_in_hand == full_unique_in_hand(b.hands[player + 1])
    IN  Flatten([i \in 1..Len(unique_in_hand) |->
            Flatten([k \in 1..full_NUM_SQUARES |->
                full_drop_move(b, player, unique_in_hand[i], k - 1)])])

full_pseudo_legal_moves(b, player) ==
    full_generate_board_moves(b, player) \o full_generate_drop_moves(b, player)

\* `assert piece is not None` is the caller's obligation: apply_board_move is
\* only evaluated on moves whose origin holds a piece.
full_apply_board_move(b, player, move) ==
    LET promote == move >= full_PROMO_MOVE_BASE
        adjusted == IF promote THEN move - full_PROMO_MOVE_BASE ELSE move
        from_idx == adjusted \div full_NUM_SQUARES
        to_idx == adjusted % full_NUM_SQUARES
        piece == b.squares[from_idx]
        target == b.squares[to_idx]
        captured == IF target # None
                    THEN full_add_to_hand(b, player, target.piece_type)
                    ELSE b
        new_type == IF promote /\ piece.piece_type \in full_PROMOTABLE
                    THEN full_PROMOTION_MAP(piece.piece_type)
                    ELSE piece.piece_type
        vacated == full_set_piece(captured, from_idx \div full_COLS,
                                  from_idx % full_COLS, None)
    IN  full_set_piece(vacated, to_idx \div full_COLS, to_idx % full_COLS,
                       Piece(new_type, player))

full_apply_drop(b, player, move) ==
    LET adjusted == move - full_DROP_MOVE_BASE
        pt_index == adjusted \div full_NUM_SQUARES
        to_idx == adjusted % full_NUM_SQUARES
        pt == full_HAND_PIECE_TYPES[pt_index + 1]
    IN  full_set_piece(full_remove_from_hand(b, player, pt),
                       to_idx \div full_COLS, to_idx % full_COLS, Piece(pt, player))

full_apply_move(b, player, move) ==
    IF move >= full_DROP_MOVE_BASE
    THEN full_apply_drop(b, player, move)
    ELSE full_apply_board_move(b, player, move)

\* apply_move raises instead of returning a board: the assert on the origin
\* square of a board move fails, or remove_from_hand's list.remove does not
\* find the dropped kind.  Defined for 0 <= move < ACTION_SPACE.
full_apply_move_raises(b, player, move) ==
    IF move >= full_DROP_MOVE_BASE
    THEN LET pt_index == (move - full_DROP_MOVE_BASE) \div full_NUM_SQUARES
         IN  full_HAND_PIECE_TYPES[pt_index + 1] \notin Range(b.hands[player + 1])
    ELSE LET adjusted == IF move >= full_PROMO_MOVE_BASE
                         THEN move - full_PROMO_MOVE_BASE ELSE move
         IN  b.squares[adjusted \div full_NUM_SQUARES] = None

\* The while loop of the slide branch of _attacks_square, entered at (nr, nc).
RECURSIVE full_slide_attacks(_, _, _, _, _, _, _)
full_slide_attacks(b, nr, nc, dr, dc, target_row, target_col) ==
    IF ~full_on_board(nr, nc) THEN FALSE
    ELSE IF nr = target_row /\ nc = target_col THEN TRUE
    ELSE IF full_piece_at(b, nr, nc) # None THEN FALSE
    ELSE full_slide_attacks(b, nr + dr, nc + dc, dr, dc, target_row, target_col)

\* A one-square (or knight) offset d of the attacker hits the target.
full_step_attacks(row, col, d, target_row, target_col, attacker) ==
    LET dr == IF attacker = GOTE THEN -d[1] ELSE d[1]
    IN  row + dr = target_row /\ col + d[2] = target_col

full_attacks_square(b, piece, piece_idx, target_row, target_col, attacker) ==
    LET row == piece_idx \div full_COLS
        col == piece_idx % full_COLS
        pt == piece.piece_type
    IN  \/ \E i \in 1..Len(full_STEP_MOVES(pt)) :
              full_step_attacks(row, col, full_STEP_MOVES(pt)[i],
                                target_row, target_col, attacker)
        \/ /\ pt = KNIGHT
           /\ \E i \in 1..Len(full_KNIGHT_MOVES) :
                 full_step_attacks(row, col, full_KNIGHT_MOVES[i],
                                   target_row, target_col, attacker)
        \/ \E i \in 1..Len(full_SLIDE_MOVES(pt)) :
              LET d == full_SLIDE_MOVES(pt)[i]
                  dr == IF attacker = GOTE THEN -d[1] ELSE d[1]
                  dc == IF attacker = GOTE THEN -d[2] ELSE d[2]
              IN  full_slide_attacks(b, row + dr, col + dc, dr, dc,
                                     target_row, target_col)
        \/ /\ pt = HORSE
           /\ \E i \in 1..Len(full_HORSE_EXTRA_STEPS) :
                 full_step_attacks(row, col, full_HORSE_EXTRA_STEPS[i],
                                   target_row, target_col, attacker)
        \/ /\ pt = DRAGON
           /\ \E i \in 1..Len(full_DRAGON_EXTRA_STEPS) :
                 full_step_attacks(row, col, full_DRAGON_EXTRA_STEPS[i],
                                   target_row, target_col, attacker)

\* Faulty variant of _is_in_check: an attack on the king is never seen.
full_is_in_check_never(b, player) == FALSE

full_is_in_check(b, player) ==
    LET king_idx == full_find_king(b, player)
    IN  IF king_idx = NoIndex THEN TRUE
        ELSE \E idx \in 0..(full_NUM_SQUARES - 1) :
                /\ b.squares[idx] # None
                /\ b.squares[idx].owner = opponent(player)
                /\ full_attacks_square(b, b.squares[idx], idx,
                                       king_idx \div full_COLS, king_idx % full_COLS,
                                       opponent(player))

\* Faulty variant of legal_moves: the pseudo-legal moves, unfiltered.
full_legal_moves_unfiltered(b, player) == full_pseudo_legal_moves(b, player)

full_legal_moves(b, player) ==
    SelectSeq(full_pseudo_legal_moves(b, player),
              LAMBDA move : ~full_is_in_check(full_apply_move(b, player, move), player))

(***************************************************************************)
(* full_shogi/state.py: FullShogiState(board, _current_player, _move_count) *)
(***************************************************************************)
full_State(b, player, count) ==
    [board |-> b, current_player |-> player, move_count |-> count]

full_state_legal_moves(s) == full_legal_moves(s.board, s.current_player)

full_is_terminal(s) ==
    IF \E player \in Player : full_find_king(s.board, player) = NoIndex
    THEN TRUE
    ELSE Len(full_state_legal_moves(s)) = 0

\* Faulty variant of winner: a side without a legal move has not lost.
full_winner_no_mate(s) ==
    IF full_find_king(s.board, SENTE) = NoIndex THEN opponent(SENTE)
    ELSE IF full_find_king(s.board, GOTE) = NoIndex THEN opponent(GOTE)
    ELSE NoWinner

\* winner: NoWinner stands for None.  `for player in Player` visits SENTE
\* first.
full_winner(s) ==
    IF full_find_king(s.board, SENTE) = NoIndex THEN opponent(SENTE)
    ELSE IF full_find_king(s.board, GOTE) = NoIndex THEN opponent(GOTE)
    ELSE IF Len(full_state_legal_moves(s)) = 0 THEN opponent(s.current_player)
    ELSE NoWinner

\* Faulty variant of apply_move: the side to move is not exchanged.
full_state_apply_move_same_player(s, move) ==
    full_State(full_apply_move(s.board, s.current_player, move),
               s.current_player, s.move_count + 1)

full_state_apply_move(s, move) ==
    full_State(full_apply_move(s.board, s.current_player, move),
               opponent(s.current_player), s.move_count + 1)

(***************************************************************************)
(* animal_shogi/types.py                                                   *)
(***************************************************************************)
animal_COLS == 3

animal_ROWS == 4

animal_NUM_SQUARES == animal_ROWS * animal_COLS

CHICK == 0

GIRAFFE == 1

ELEPHANT == 2

LION == 3

HEN == 4

animal_PieceType == 0..4

animal_PIECE_MOVES(pt) ==
    CASE pt = CHICK    -> << <<-1, 0>> >>
      [] pt = GIRAFFE  -> << <<-1, 0>>, <<1, 0>>, <<0, -1>>, <<0, 1>> >>
      [] pt = ELEPHANT -> << <<-1, -1>>, <<-1, 1>>, <<1, -1>>, <<1, 1>> >>
      [] pt = LION     -> << <<-1, -1>>, <<-1, 0>>, <<-1, 1>>, <<0, -1>>, <<0, 1>>,
                             <<1, -1>>, <<1, 0>>, <<1, 1>> >>
      [] pt = HEN      -> << <<-1, -1>>, <<-1, 0>>, <<-1, 1>>, <<0, -1>>, <<0, 1>>,
                             <<1, 0>> >>

animal_HAND_PIECE_TYPES == <<CHICK, GIRAFFE, ELEPHANT>>

(***************************************************************************)
(* animal_shogi/board.py                                                   *)
(***************************************************************************)
animal_initial_squares ==
    [idx \in 0..(animal_NUM_SQUARES - 1) |->
        CASE idx = 0 * animal_COLS + 0 -> Piece(GIRAFFE, GOTE)
          [] idx = 0 * animal_COLS + 1 -> Piece(LION, GOTE)
          [] idx = 0 * animal_COLS + 2 -> Piece(ELEPHANT, GOTE)
          [] idx = 1 * animal_COLS + 1 -> Piece(CHICK, GOTE)
          [] idx = 2 * animal_COLS + 1 -> Piece(CHICK, SENTE)
          [] idx = 3 * animal_COLS + 0 -> Piece(ELEPHANT, SENTE)
          [] idx = 3 * animal_COLS + 1 -> Piece(LION, SENTE)
          [] idx = 3 * animal_COLS + 2 -> Piece(GIRAFFE, SENTE)
          [] OTHER -> None]

animal_Board == [squares |-> animal_initial_squares, hands |-> << <<>>, <<>> >>]

animal_piece_at(b, row, col) == b.squares[row * animal_COLS + col]

animal_set_piece(b, row, col, piece) ==
    [b EXCEPT !.squares[row * animal_COLS + col] = piece]

\* Faulty variant of add_to_hand: the captured piece is not kept.
animal_add_to_hand_lost(b, player, piece_type) == b

animal_add_to_hand(b, player, piece_type) ==
    [b EXCEPT !.hands[player + 1] =
        ListSort(Append(@, IF piece_type = HEN THEN CHICK ELSE piece_type))]

animal_remove_from_hand(b, player, piece_type) ==
    [b EXCEPT !.hands[player + 1] = RemoveFirst(@, piece_type)]

animal_find_lion(b, player) ==
    LET ls == {idx \in 0..(animal_NUM_SQUARES - 1) :
                  b.squares[idx] = Piece(LION, player)}
    IN  IF ls = {} THEN NoIndex
        ELSE CHOOSE idx \in ls : \A j \in ls : idx <= j

(***************************************************************************)
(* animal_shogi/moves.py                                                   *)
(***************************************************************************)
animal_ACTION_SPACE == 180

animal_DROP_OFFSET == animal_ROWS * animal_COLS * animal_ROWS * animal_COLS

animal_encode_board_move(from_idx, to_idx) == from_idx * 12 + to_idx

animal_hand_index(piece_type) ==
    (CHOOSE i \in 1..Len(animal_HAND_PIECE_TYPES) :
        animal_HAND_PIECE_TYPES[i] = piece_type) - 1

animal_encode_drop_move(piece_type, to_idx) ==
    animal_DROP_OFFSET + animal_hand_index(piece_type) * 12 + to_idx

animal_decode_move(move) ==
    IF move < animal_DROP_OFFSET THEN
        LET from_idx == move \div 12
            to_idx == move % 12
        IN  [type |-> "board",
             from |-> <<from_idx \div animal_COLS, from_idx % animal_COLS>>,
             to |-> <<to_idx \div animal_COLS, to_idx % animal_COLS>>]
    ELSE
        LET remainder == move - animal_DROP_OFFSET
            pt_index == remainder \div 12
            to_idx == remainder % 12
        IN  [type |-> "drop",
             piece_type |-> animal_HAND_PIECE_TYPES[pt_index + 1],
             to |-> <<to_idx \div animal_COLS, to_idx % animal_COLS>>]

\* Faulty variant of _should_promote: the kind of the piece is not looked at.
animal_should_promote_any_kind(piece, player, dest_row) ==
    IF player = SENTE THEN dest_row = 0 ELSE dest_row = animal_ROWS - 1

animal_should_promote(piece, player, dest_row) ==
    IF piece.piece_type # CHICK THEN FALSE
    ELSE IF player = SENTE THEN dest_row = 0
    ELSE dest_row = animal_ROWS - 1

\* One iteration of the delta loop of legal_moves; both branches of the
\* promotion test append the same index.
animal_step_move(b, player, idx, piece, d) ==
    LET row == idx \div animal_COLS
        col == idx % animal_COLS
        dr == IF player = GOTE THEN -d[1] ELSE d[1]
        nr == row + dr
        nc == col + d[2]
    IN  IF ~(0 <= nr /\ nr < animal_ROWS /\ 0 <= nc /\ nc < animal_COLS) THEN <<>>
        ELSE IF animal_piece_at(b, nr, nc) # None
                /\ animal_piece_at(b, nr, nc).owner = player THEN <<>>
        ELSE IF animal_should_promote(piece, player, nr)
             THEN <<animal_encode_board_move(idx, nr * animal_COLS + nc)>>
             ELSE <<animal_encode_board_move(idx, nr * animal_COLS + nc)>>

animal_piece_moves(b, player, idx) ==
    LET piece == b.squares[idx]
    IN  IF piece = None \/ piece.owner # player THEN <<>>
        ELSE LET deltas == animal_PIECE_MOVES(piece.piece_type)
             IN  Flatten([i \in 1..Len(deltas) |->
                            animal_step_move(b, player, idx, piece, deltas[i])])

\* Faulty variant of unique_in_hand: the hand itself, copies included.
animal_unique_in_hand_copies(hand) == hand

\* set(hand) iterated in ascending value order (small IntEnum values).  A
\* kind outside HAND_PIECE_TYPES is passed on to encode_drop_move like any
\* other, where HAND_PIECE_TYPES.index has no value for it.
animal_unique_in_hand(hand) ==
    SelectSeq([i \in 1..5 |-> i - 1], LAMBDA pt : pt \in Range(hand))

animal_drop_moves(b, player) ==
    LET unique_in_hand == animal_unique_in_hand(b.hands[player + 1])
    IN  Flatten([i \in 1..Len(unique_in_hand) |->
            Flatten([k \in 1..animal_NUM_SQUARES |->
                IF b.squares[k - 1] # None THEN <<>>
                ELSE <<animal_encode_drop_move(unique_in_hand[i], k - 1)>>])])

animal_legal_moves(b, player) ==
    Flatten([k \in 1..animal_NUM_SQUARES |-> animal_piece_moves(b, player, k - 1)])
    \o animal_drop_moves(b, player)

animal_apply_board_move(b, player, move) ==
    LET from_idx == move \div 12
        to_idx == move % 12
        from_row == from_idx \div animal_COLS
        from_col == from_idx % animal_COLS
        to_row == to_idx \div animal_COLS
        piece == animal_piece_at(b, from_row, from_col)
        target == b.squares[to_idx]
        captured == IF target # None
                    THEN animal_add_to_hand(b, player, target.piece_type)
                    ELSE b
        new_piece_type == IF animal_should_promote(piece, player, to_row)
                          THEN HEN ELSE piece.piece_type
        vacated == animal_set_piece(captured, from_row, from_col, None)
    IN  animal_set_piece(vacated, to_idx \div animal_COLS, to_idx % animal_COLS,
                         Piece(new_piece_type, player))

animal_apply_drop_move(b, player, move) ==
    LET remainder == move - animal_DROP_OFFSET
        pt_index == remainder \div 12
        to_idx == remainder % 12
        piece_type == animal_HAND_PIECE_TYPES[pt_index + 1]
    IN  animal_set_piece(animal_remove_from_hand(b, player, piece_type),
                         to_idx \div animal_COLS, to_idx % animal_COLS,
                         Piece(piece_type, player))

animal_apply_move(b, player, move) ==
    IF move < animal_DROP_OFFSET
    THEN animal_apply_board_move(b, player, move)
    ELSE animal_apply_drop_move(b, player, move)

\* apply_move raises instead of returning a board: the assert on the origin
\* square fails, or list.remove does not find the dropped kind.  Defined
\* for 0 <= move < ACTION_SPACE.
animal_apply_move_raises(b, player, move) ==
    IF move < animal_DROP_OFFSET
    THEN animal_piece_at(b, (move \div 12) \div animal_COLS,
                         (move \div 12) % animal_COLS) = None
    ELSE LET pt_index == (move - animal_DROP_OFFSET) \div 12
         IN  animal_HAND_PIECE_TYPES[pt_index + 1] \notin Range(b.hands[player + 1])

(***************************************************************************)
(* animal_shogi/state.py: AnimalShogiState(board, _current_player,         *)
(* _move_count)                                                            *)
(***************************************************************************)
animal_State(b, player, count) ==
    [board |-> b, current_player |-> player, move_count |-> count]

animal_state_legal_moves(s) == animal_legal_moves(s.board, s.current_player)

\* Faulty variant of _can_capture_lion: the lion is never capturable.
animal_can_capture_lion_never(s, player, lion_idx) == FALSE

animal_can_capture_lion(s, player, lion_idx) ==
    LET moves == animal_legal_moves(s.board, player)
    IN  \E i \in 1..Len(moves) : moves[i] < 144 /\ moves[i] % 12 = lion_idx

\* Faulty variant of winner: the side that lost its lion is declared winner.
animal_winner_lion_loser(s) ==
    LET prev_player == opponent(s.current_player)
        lion_idx == animal_find_lion(s.board, prev_player)
        lion_row == lion_idx \div animal_COLS
        target_row == IF prev_player = SENTE THEN 0 ELSE animal_ROWS - 1
    IN  IF animal_find_lion(s.board, SENTE) = NoIndex THEN SENTE
        ELSE IF animal_find_lion(s.board, GOTE) = NoIndex THEN GOTE
        ELSE IF lion_idx # NoIndex /\ lion_row = target_row
                /\ ~animal_can_capture_lion(s, s.current_player, lion_idx)
             THEN prev_player
        ELSE IF Len(animal_state_legal_moves(s)) = 0 THEN opponent(s.current_player)
        ELSE NoWinner

\* winner: NoWinner stands for None.
animal_winner(s) ==
    LET prev_player == opponent(s.current_player)
        lion_idx == animal_find_lion(s.board, prev_player)
        lion_row == lion_idx \div animal_COLS
        target_row == IF prev_player = SENTE THEN 0 ELSE animal_ROWS - 1
    IN  IF animal_find_lion(s.board, SENTE) = NoIndex THEN opponent(SENTE)
        ELSE IF animal_find_lion(s.board, GOTE) = NoIndex THEN opponent(GOTE)
        ELSE IF lion_idx # NoIndex /\ lion_row = target_row
                /\ ~animal_can_capture_lion(s, s.current_player, lion_idx)
             THEN prev_player
        ELSE IF Len(animal_state_legal_moves(s)) = 0 THEN opponent(s.current_player)
        ELSE NoWinner

animal_is_terminal(s) ==
    animal_winner(s) # NoWinner \/ Len(animal_state_legal_moves(s)) = 0

\* What a driver reads from s.legal_moves(): it asks only while the game has
\* no winner (`while not state.is_terminal`).
animal_moves_offered(s) ==
    IF animal_winner(s) # NoWinner THEN <<>> ELSE animal_state_legal_moves(s)

animal_state_apply_move(s, move) ==
    animal_State(animal_apply_move(s.board, s.current_player, move),
                 opponent(s.current_player), s.move_count + 1)

(***************************************************************************)
(* game/protocol.py: the GameState interface the engines work against,     *)
(* dispatched on the variant being played.                                 *)
(***************************************************************************)
game_legal_moves(s) ==
    IF variant = "full" THEN full_state_legal_moves(s)
    ELSE animal_state_legal_moves(s)

game_is_terminal(s) ==
    IF variant = "full" THEN full_is_terminal(s) ELSE animal_is_terminal(s)

game_winner(s) ==
    IF variant = "full" THEN full_winner(s) ELSE animal_winner(s)

game_apply_move(s, move) ==
    IF variant = "full" THEN full_state_apply_move(s, move)
    ELSE animal_state_apply_move(s, move)

game_action_space_size ==
    IF variant = "full" THEN full_ACTION_SPACE ELSE animal_ACTION_SPACE

(***************************************************************************)
(* engine/mcts.py.  The tree is a function from paths (the moves leading   *)
(* from the root to a node) to nodes; a node keeps visit_count,            *)
(* total_value and the keys of its children dict in insertion order.  The  *)
(* prior of a node only steers _select_child and is not kept: the network  *)
(* and the Dirichlet noise can give any priors, so _select_child may       *)
(* return any child, and the network's value is any of NetworkValues.      *)
(* Probabilities are fractions <<numerator, denominator>>; a temperature   *)
(* is a fraction too and is 0 when its numerator is.                       *)
(***************************************************************************)
MaxAnimalSimulations == 2

MaxFullSimulations == 1

Temperatures == {<<0, 1>>, <<1, 1>>, <<1, 2>>}

NetworkValues == {-1, 1}

MCTSNode == [visit_count |-> 0, total_value |-> 0, children |-> <<>>]

MCTSConfig ==
    [num_simulations : 0..(IF variant = "full" THEN MaxFullSimulations
                           ELSE MaxAnimalSimulations),
     temperature : Temperatures]

\* No search has been asked for.
NoSearch ==
    [phase |-> "idle",
     config |-> [num_simulations |-> 0, temperature |-> <<1, 1>>],
     simulations |-> 0, tree |-> <<>>, action_probs |-> <<>>]

RECURSIVE SumSeq(_)
SumSeq(s) == IF s = <<>> THEN 0 ELSE Head(s) + SumSeq(Tail(s))

RECURSIVE Pow(_, _)
Pow(x, k) == IF k = 0 THEN 1 ELSE x * Pow(x, k - 1)

\* [0.0] * state.action_space_size
mcts_zeros == [i \in 1..game_action_space_size |-> <<0, 1>>]

\* node.children[move] = MCTSNode(prior=policy[move]) for each legal move.
mcts_expand(tree, path, moves) ==
    [tree EXCEPT ![path].children = moves]
    @@ [p \in {Append(path, moves[i]) : i \in 1..Len(moves)} |-> MCTSNode]

\* _select_child: the child with the highest PUCT score, which depends on
\* the priors.
mcts_select_child(node) == Range(node.children)

\* _simulate(node, state): the possible pairs of resulting tree and returned
\* value.
RECURSIVE mcts_simulate(_, _, _)
mcts_simulate(tree, path, s) ==
    IF game_is_terminal(s) THEN
        {[tree |-> tree,
          value |-> IF game_winner(s) = NoWinner THEN 0
                    ELSE IF game_winner(s) = s.current_player THEN 1
                    ELSE -1]}
    ELSE IF tree[path].children = <<>> THEN
        {[tree |-> mcts_expand(tree, path, game_legal_moves(s)), value |-> v] :
            v \in NetworkValues}
    ELSE
        UNION {
            LET child == Append(path, move)
            IN  {LET value == -r.value
                 IN  [tree |-> [r.tree EXCEPT ![child].visit_count = @ + 1,
                                              ![child].total_value = @ + value],
                      value |-> value] :
                    r \in mcts_simulate(tree, child, game_apply_move(s, move))} :
            move \in mcts_select_child(tree[path])}

\* Faulty variant of the temperature-0 choice: the last key, whatever the
\* visit counts.
mcts_best_move_last(tree) == tree[<<>>].children[Len(tree[<<>>].children)]

\* max(root.children, key=visit_count): the first key, in insertion order,
\* whose visit count is the largest.
mcts_best_move(tree) ==
    LET keys == tree[<<>>].children
        n(i) == tree[<<keys[i]>>].visit_count
    IN  keys[CHOOSE i \in 1..Len(keys) :
                 /\ \A j \in 1..Len(keys) : n(j) <= n(i)
                 /\ \A j \in 1..(i - 1) : n(j) < n(i)]

\* action_probs[move] = entries[k] for the k-th key, from the k-th key on.
RECURSIVE mcts_scatter(_, _, _, _)
mcts_scatter(action_probs, keys, entries, k) ==
    IF k > Len(keys) THEN action_probs
    ELSE mcts_scatter([action_probs EXCEPT ![keys[k] + 1] = entries[k]],
                      keys, entries, k + 1)

\* The end of search: the vector built from the root's children.
mcts_action_probs(tree, temperature) ==
    LET keys == tree[<<>>].children
    IN  IF temperature[1] = 0 THEN
            [mcts_zeros EXCEPT ![mcts_best_move(tree) + 1] = <<1, 1>>]
        ELSE
            LET exponent == temperature[2] \div temperature[1]
                weights == [k \in 1..Len(keys) |->
                               Pow(tree[<<keys[k]>>].visit_count, exponent)]
                total == SumSeq(weights)
            IN  IF total > 0
                THEN mcts_scatter(mcts_zeros, keys,
                                  [k \in 1..Len(keys) |-> <<weights[k], total>>], 1)
                ELSE mcts_zeros

(***************************************************************************)
(* Game positions.  A scenario is a starting position (the standard one or *)
(* a board constructed square by square as the test suites do), the side   *)
(* to move, and a recorded opening line that is replayed move by move      *)
(* before the play branches over every legal move.                         *)
(***************************************************************************)
MaxFullPly == 1

MaxAnimalPly == 3

\* tests/game/full_shogi/test_comprehensive.py _make_board: an empty board
\* with the listed (row, col, piece_type, owner) pieces and the given hands.
full_make_board(pieces, sente_hand, gote_hand) ==
    [squares |->
        [idx \in 0..(full_NUM_SQUARES - 1) |->
            IF \E p \in pieces : p[1] * full_COLS + p[2] = idx
            THEN LET p == CHOOSE p \in pieces : p[1] * full_COLS + p[2] = idx
                 IN  Piece(p[3], p[4])
            ELSE None],
     hands |-> <<sente_hand, gote_hand>>]

full_board_uchifuzume ==
    full_make_board({
        <<8, 4, KING, SENTE>>, <<0, 8, KING, GOTE>>, <<0, 6, GOLD, SENTE>>,
        <<2, 7, GOLD, SENTE>>, <<6, 0, PAWN, SENTE>>, <<5, 1, PRO_PAWN, SENTE>>,
        <<3, 2, PAWN, GOTE>>},
        <<PAWN>>, <<>>)

full_board_uchifuzume_gote ==
    full_make_board({
        <<0, 4, KING, GOTE>>, <<8, 0, KING, SENTE>>, <<8, 2, GOLD, GOTE>>,
        <<6, 1, GOLD, GOTE>>, <<2, 8, PAWN, GOTE>>, <<3, 7, PRO_PAWN, GOTE>>,
        <<5, 6, PAWN, SENTE>>},
        <<>>, <<PAWN>>)

full_board_promotion ==
    full_make_board({
        <<8, 4, KING, SENTE>>, <<0, 8, KING, GOTE>>, <<1, 0, PAWN, SENTE>>,
        <<3, 1, LANCE, SENTE>>, <<3, 3, KNIGHT, SENTE>>, <<4, 6, KNIGHT, SENTE>>,
        <<3, 5, SILVER, SENTE>>, <<6, 2, BISHOP, SENTE>>, <<2, 4, ROOK, SENTE>>,
        <<2, 7, GOLD, SENTE>>, <<5, 0, HORSE, SENTE>>, <<7, 7, DRAGON, SENTE>>,
        <<4, 3, PAWN, SENTE>>},
        <<LANCE, KNIGHT>>, <<>>)

full_board_promotion_gote ==
    full_make_board({
        <<0, 4, KING, GOTE>>, <<8, 0, KING, SENTE>>, <<7, 8, PAWN, GOTE>>,
        <<5, 7, LANCE, GOTE>>, <<5, 5, KNIGHT, GOTE>>, <<4, 2, KNIGHT, GOTE>>,
        <<5, 3, SILVER, GOTE>>, <<2, 6, BISHOP, GOTE>>, <<6, 4, ROOK, GOTE>>,
        <<6, 1, GOLD, GOTE>>, <<3, 8, HORSE, GOTE>>, <<1, 1, DRAGON, GOTE>>,
        <<4, 5, PAWN, GOTE>>},
        <<>>, <<LANCE, KNIGHT>>)

full_board_pinned ==
    full_make_board({
        <<5, 4, KING, SENTE>>, <<0, 0, KING, GOTE>>, <<5, 6, SILVER, SENTE>>,
        <<5, 8, ROOK, GOTE>>},
        <<>>, <<>>)

full_board_in_check ==
    full_make_board({
        <<8, 4, KING, SENTE>>, <<0, 0, KING, GOTE>>, <<0, 4, ROOK, GOTE>>},
        <<GOLD>>, <<>>)

\* A rook that can take a promoted silver while its owner holds a lance and
\* a rook.
full_board_capture ==
    full_make_board({
        <<8, 4, KING, SENTE>>, <<0, 4, KING, GOTE>>, <<4, 0, ROOK, SENTE>>,
        <<4, 3, PRO_SILVER, GOTE>>},
        <<LANCE, ROOK>>, <<>>)

\* 1. P-7f  2. P-3d  3. Bx2b+  4. Sx2b  5. B*3c (check), from the standard
\* starting position.
full_line_bishop_exchange ==
    <<full_encode_board_move(6 * full_COLS + 2, 5 * full_COLS + 2, FALSE),
      full_encode_board_move(2 * full_COLS + 6, 3 * full_COLS + 6, FALSE),
      full_encode_board_move(7 * full_COLS + 1, 1 * full_COLS + 7, TRUE),
      full_encode_board_move(0 * full_COLS + 6, 1 * full_COLS + 7, FALSE),
      full_encode_drop_move(BISHOP, 2 * full_COLS + 6)>>

FullScenarios == <<
    [board |-> full_Board, player |-> SENTE, line |-> full_line_bishop_exchange],
    [board |-> full_board_uchifuzume, player |-> SENTE, line |-> <<>>],
    [board |-> full_board_uchifuzume_gote, player |-> GOTE, line |-> <<>>],
    [board |-> full_board_promotion, player |-> SENTE, line |-> <<>>],
    [board |-> full_board_promotion_gote, player |-> GOTE, line |-> <<>>],
    [board |-> full_board_pinned, player |-> SENTE, line |-> <<>>],
    [board |-> full_board_in_check, player |-> SENTE, line |-> <<>>],
    [board |-> full_board_capture, player |-> SENTE, line |-> <<>>]
>>

\* 1. Lion c4-c3  2. Lion b1-a2  3. Lion c3-c2: the first lion is one step
\* from the far rank.
animal_line_lion_march ==
    <<animal_encode_board_move(3 * animal_COLS + 1, 2 * animal_COLS + 2),
      animal_encode_board_move(0 * animal_COLS + 1, 1 * animal_COLS + 0),
      animal_encode_board_move(2 * animal_COLS + 2, 1 * animal_COLS + 2)>>

\* 1. Chick b3xb2  2. Lion b1xb2  3. Chick dropped on a2  4. Giraffe a1xa2:
\* the second player holds two chicks.
animal_line_two_chicks ==
    <<animal_encode_board_move(2 * animal_COLS + 1, 1 * animal_COLS + 1),
      animal_encode_board_move(0 * animal_COLS + 1, 1 * animal_COLS + 1),
      animal_encode_drop_move(CHICK, 1 * animal_COLS + 0),
      animal_encode_board_move(0 * animal_COLS + 0, 1 * animal_COLS + 0)>>

AnimalScenarios == <<
    [board |-> animal_Board, player |-> SENTE, line |-> <<>>],
    [board |-> animal_Board, player |-> SENTE, line |-> animal_line_lion_march],
    [board |-> animal_Board, player |-> SENTE, line |-> animal_line_two_chicks]
>>

\* The state object the variables hold.
state == [board |-> board, current_player |-> current_player,
          move_count |-> move_count]

\* `outcome` records how a call of apply_move with an index outside
\* legal_moves() ended: "raised" or "returned"; "none" while no such call was
\* made.
\* `legal` is the list state.legal_moves() hands to whoever picks the next
\* move (random_player.py, cli.py, web/app.py, mcts.py, minimax.py all read
\* it from the state they are given).
FullStart(sc) ==
    /\ variant = "full"
    /\ scenario = sc
    /\ board = FullScenarios[scenario].board
    /\ current_player = FullScenarios[scenario].player
    /\ move_count = 0
    /\ legal = full_legal_moves(board, current_player)
    /\ last_move = -1

\* No move description is being encoded or decoded.
NoCodec == [input |-> [type |-> "none"], index |-> NoIndex,
            output |-> [type |-> "none"]]

\* No negamax call, no self-play game, no arena match and no training run is
\* under way.
NotRunning == [phase |-> "none"]

NoDrivers ==
    /\ minimax = NotRunning
    /\ selfplay = NotRunning
    /\ arena = NotRunning
    /\ trainer = NotRunning

InitFull ==
    /\ \E sc \in 1..Len(FullScenarios) : FullStart(sc)
    /\ codec = NoCodec
    /\ outcome = "none"
    /\ mcts = NoSearch
    /\ NoDrivers

AnimalStart(sc) ==
    /\ variant = "animal"
    /\ scenario = sc
    /\ board = AnimalScenarios[scenario].board
    /\ current_player = AnimalScenarios[scenario].player
    /\ move_count = 0
    /\ legal = animal_moves_offered(animal_State(board, current_player, move_count))
    /\ last_move = -1

InitAnimal ==
    /\ \E sc \in 1..Len(AnimalScenarios) : AnimalStart(sc)
    /\ codec = NoCodec
    /\ outcome = "none"
    /\ mcts = NoSearch
    /\ NoDrivers

\* The recorded line is followed while it lasts; after it at most max_ply
\* further plies are played.
InBudget(line, max_ply) == move_count < Len(line) + max_ply

OnLine(line, move) == move_count < Len(line) => move = line[move_count + 1]

\* state.apply_move(move) for a move of state.legal_moves(), as every driver
\* calls it: only on a state that is not terminal.
FullApplyMove ==
    /\ variant = "full"
    /\ InBudget(FullScenarios[scenario].line, MaxFullPly)
    /\ ~full_is_terminal(state)
    /\ \E move \in Range(legal) :
          /\ OnLine(FullScenarios[scenario].line, move)
          /\ LET next_state == full_state_apply_move(state, move)
             IN  /\ board' = next_state.board
                 /\ current_player' = next_state.current_player
                 /\ move_count' = next_state.move_count
                 /\ legal' = full_state_legal_moves(next_state)
          /\ last_move' = move
    /\ UNCHANGED <<minimax, selfplay, arena, trainer>>
    /\ UNCHANGED <<variant, scenario, codec, outcome, mcts>>

AnimalApplyMove ==
    /\ variant = "animal"
    /\ InBudget(AnimalScenarios[scenario].line, MaxAnimalPly)
    /\ ~animal_is_terminal(state)
    /\ \E move \in Range(legal) :
          /\ OnLine(AnimalScenarios[scenario].line, move)
          /\ LET next_state == animal_state_apply_move(state, move)
             IN  /\ board' = next_state.board
                 /\ current_player' = next_state.current_player
                 /\ move_count' = next_state.move_count
                 /\ legal' = animal_moves_offered(next_state)
          /\ last_move' = move
    /\ UNCHANGED <<minimax, selfplay, arena, trainer>>
    /\ UNCHANGED <<variant, scenario, codec, outcome, mcts>>

Init == InitFull \/ InitAnimal

Next == FullApplyMove \/ AnimalApplyMove

Spec == Init /\ [][Next]_vars

SpecFull == InitFull /\ [][FullApplyMove]_vars

SpecAnimal == InitAnimal /\ [][AnimalApplyMove]_vars

(***************************************************************************)
(* A caller that hands apply_move an index it did not take from            *)
(* legal_moves().  apply_move (state.py, moves.py) decodes the index and   *)
(* executes it; the only places it can raise are the assert on the origin  *)
(* square and list.remove in remove_from_hand.                             *)
(***************************************************************************)
FullUncheckedStride == 331

\* The indices tried on a full-shogi state: every FullUncheckedStride-th
\* index of the action space that is not a legal move.
full_unchecked_moves ==
    {move \in 0..(full_ACTION_SPACE - 1) :
        move % FullUncheckedStride = 0 /\ move \notin Range(legal)}

animal_unchecked_moves ==
    {move \in 0..(animal_ACTION_SPACE - 1) : move \notin Range(legal)}

FullApplyUnchecked ==
    /\ variant = "full"
    /\ outcome = "none"
    /\ ~full_is_terminal(state)
    /\ \E move \in full_unchecked_moves :
          /\ last_move' = move
          /\ IF full_apply_move_raises(board, current_player, move)
             THEN /\ outcome' = "raised"
                  /\ UNCHANGED <<board, current_player, move_count, legal>>
             ELSE LET next_state == full_state_apply_move(state, move)
                  IN  /\ outcome' = "returned"
                      /\ board' = next_state.board
                      /\ current_player' = next_state.current_player
                      /\ move_count' = next_state.move_count
                      /\ legal' = full_state_legal_moves(next_state)
    /\ UNCHANGED <<minimax, selfplay, arena, trainer>>
    /\ UNCHANGED <<variant, scenario, codec, mcts>>

AnimalApplyUnchecked ==
    /\ variant = "animal"
    /\ outcome = "none"
    /\ ~animal_is_terminal(state)
    /\ \E move \in animal_unchecked_moves :
          /\ last_move' = move
          /\ IF animal_apply_move_raises(board, current_player, move)
             THEN /\ outcome' = "raised"
                  /\ UNCHANGED <<board, current_player, move_count, legal>>
             ELSE LET next_state == animal_state_apply_move(state, move)
                  IN  /\ outcome' = "returned"
                      /\ board' = next_state.board
                      /\ current_player' = next_state.current_player
                      /\ move_count' = next_state.move_count
                      /\ legal' = animal_moves_offered(next_state)
    /\ UNCHANGED <<minimax, selfplay, arena, trainer>>
    /\ UNCHANGED <<variant, scenario, codec, mcts>>

SpecUnchecked ==
    Init /\ [][\/ (outcome = "none" /\ Next)
               \/ FullApplyUnchecked
               \/ AnimalApplyUnchecked]_vars

(***************************************************************************)
(* The move codec on its own: a move description is drawn, encoded with    *)
(* encode_board_move / encode_drop_move and the index decoded again with   *)
(* decode_move.                                                            *)
(***************************************************************************)
full_MoveDescriptions ==
    [type : {"board"}, from_idx : 0..(full_NUM_SQUARES - 1),
     to_idx : 0..(full_NUM_SQUARES - 1), promote : BOOLEAN]
    \cup [type : {"drop"}, piece_type : Range(full_HAND_PIECE_TYPES),
          to_idx : 0..(full_NUM_SQUARES - 1)]

animal_MoveDescriptions ==
    [type : {"board"}, from_idx : 0..(animal_ROWS * animal_COLS - 1),
     to_idx : 0..(animal_ROWS * animal_COLS - 1)]
    \cup [type : {"drop"}, piece_type : Range(animal_HAND_PIECE_TYPES),
          to_idx : 0..(animal_ROWS * animal_COLS - 1)]

full_encode(m) ==
    IF m.type = "board"
    THEN full_encode_board_move(m.from_idx, m.to_idx, m.promote)
    ELSE full_encode_drop_move(m.piece_type, m.to_idx)

animal_encode(m) ==
    IF m.type = "board"
    THEN animal_encode_board_move(m.from_idx, m.to_idx)
    ELSE animal_encode_drop_move(m.piece_type, m.to_idx)

InitCodec ==
    /\ FullStart(1) \/ AnimalStart(1)
    /\ codec \in [input : IF variant = "full" THEN full_MoveDescriptions
                          ELSE animal_MoveDescriptions,
                  index : {NoIndex}, output : {[type |-> "none"]}]
    /\ outcome = "none"
    /\ mcts = NoSearch
    /\ NoDrivers

EncodeMove ==
    /\ codec.input.type # "none"
    /\ codec.index = NoIndex
    /\ codec' = [codec EXCEPT !.index = IF variant = "full"
                                        THEN full_encode(codec.input)
                                        ELSE animal_encode(codec.input)]
    /\ UNCHANGED <<minimax, selfplay, arena, trainer>>
    /\ UNCHANGED <<variant, board, current_player, move_count, legal,
                   scenario, last_move, outcome, mcts>>

DecodeMove ==
    /\ codec.index # NoIndex
    /\ codec.output.type = "none"
    /\ codec' = [codec EXCEPT !.output = IF variant = "full"
                                         THEN full_decode_move(codec.index)
                                         ELSE animal_decode_move(codec.index)]
    /\ UNCHANGED <<minimax, selfplay, arena, trainer>>
    /\ UNCHANGED <<variant, board, current_player, move_count, legal,
                   scenario, last_move, outcome, mcts>>

SpecCodec == InitCodec /\ [][EncodeMove \/ DecodeMove]_vars

(***************************************************************************)
(* One call of MCTS.search on a position: the root is set up, the          *)
(* simulations run one after another, the vector is built.                 *)
(***************************************************************************)
RECURSIVE animal_play(_, _)
animal_play(s, line) ==
    IF line = <<>> THEN s
    ELSE animal_play(animal_state_apply_move(s, Head(line)), Tail(line))

full_board_kings ==
    full_make_board({<<8, 4, KING, SENTE>>, <<0, 4, KING, GOTE>>}, <<>>, <<>>)

\* The positions searched: the animal-shogi start; a position where the
\* lion can be taken; the position after it was taken; a position won by a
\* try; two full-shogi kings on their own; a full-shogi mate.
MctsRoots == <<
    [variant |-> "animal", state |-> animal_State(animal_Board, SENTE, 0)],
    [variant |-> "animal",
     state |-> animal_play(animal_State(animal_Board, SENTE, 0), <<88, 3>>)],
    [variant |-> "animal",
     state |-> animal_play(animal_State(animal_Board, SENTE, 0), <<88, 3, 49>>)],
    [variant |-> "animal",
     state |-> animal_play(animal_State(animal_Board, SENTE, 0),
                           <<126, 3, 75, 17, 36>>)],
    [variant |-> "full", state |-> full_State(full_board_kings, SENTE, 0)],
    [variant |-> "full",
     state |-> full_state_apply_move(full_State(full_board_uchifuzume, SENTE, 0),
                                     full_encode_drop_move(PAWN, 1 * full_COLS + 8))]
>>

InitMcts ==
    /\ \E r \in 1..Len(MctsRoots) :
          /\ variant = MctsRoots[r].variant
          /\ scenario = r
          /\ board = MctsRoots[r].state.board
          /\ current_player = MctsRoots[r].state.current_player
          /\ move_count = MctsRoots[r].state.move_count
    /\ legal = game_legal_moves(state)
    /\ last_move = -1
    /\ codec = NoCodec
    /\ outcome = "none"
    /\ mcts \in [phase : {"idle"}, config : MCTSConfig, simulations : {0},
                 tree : {<<>>}, action_probs : {<<>>}]
    /\ NoDrivers

\* The head of search: the root and its children, or the early return when
\* the position has no legal move.
MctsSearch ==
    /\ mcts.phase = "idle"
    /\ LET root == (<<>> :> MCTSNode)
           moves == game_legal_moves(state)
       IN  IF moves = <<>>
           THEN mcts' = [mcts EXCEPT !.phase = "done", !.tree = root,
                                     !.action_probs = mcts_zeros]
           ELSE mcts' = [mcts EXCEPT !.phase = "searching",
                                     !.tree = mcts_expand(root, <<>>, moves)]
    /\ UNCHANGED <<minimax, selfplay, arena, trainer>>
    /\ UNCHANGED <<variant, board, current_player, move_count, legal,
                   scenario, last_move, codec, outcome>>

\* One pass of the loop over range(num_simulations).
MctsSimulate ==
    /\ mcts.phase = "searching"
    /\ mcts.simulations < mcts.config.num_simulations
    /\ \E r \in mcts_simulate(mcts.tree, <<>>, state) :
          mcts' = [mcts EXCEPT !.tree = r.tree, !.simulations = @ + 1]
    /\ UNCHANGED <<minimax, selfplay, arena, trainer>>
    /\ UNCHANGED <<variant, board, current_player, move_count, legal,
                   scenario, last_move, codec, outcome>>

\* The end of search, once the loop is over.
MctsFinish ==
    /\ mcts.phase = "searching"
    /\ mcts.simulations = mcts.config.num_simulations
    /\ mcts' = [mcts EXCEPT !.phase = "done",
                            !.action_probs =
                                mcts_action_probs(mcts.tree, mcts.config.temperature)]
    /\ UNCHANGED <<minimax, selfplay, arena, trainer>>
    /\ UNCHANGED <<variant, board, current_player, move_count, legal,
                   scenario, last_move, codec, outcome>>

SpecMcts == InitMcts /\ [][MctsSearch \/ MctsSimulate \/ MctsFinish]_vars

(***************************************************************************)
(* engine/minimax.py.  Scores are floats holding whole numbers, kept as    *)
(* integers; float("inf") is Inf, above every score negamax can return.    *)
(***************************************************************************)
PIECE_VALUES == (0 :> 1) @@ (1 :> 3) @@ (2 :> 3) @@ (3 :> 100) @@ (4 :> 5)

\* _PIECE_VALUES.get(value, 0.0): the table is read with the integer value
\* of the kind, whichever variant the piece belongs to.
PIECE_VALUES_get(value) ==
    IF value \in DOMAIN PIECE_VALUES THEN PIECE_VALUES[value] ELSE 0

evaluate(s) ==
    IF game_is_terminal(s)
    THEN IF game_winner(s) = NoWinner THEN 0
         ELSE IF game_winner(s) = s.current_player THEN 1000
         ELSE -1000
    ELSE LET squares == s.board.squares
             hands == s.board.hands
             on_board ==
                 [i \in 1..Cardinality(DOMAIN squares) |->
                     LET piece == squares[i - 1]
                     IN  IF piece = None THEN 0
                         ELSE IF piece.owner = s.current_player
                              THEN PIECE_VALUES_get(piece.piece_type)
                              ELSE -PIECE_VALUES_get(piece.piece_type)]
             in_hand(i) ==
                 [k \in 1..Len(hands[i + 1]) |->
                     IF i = s.current_player
                     THEN PIECE_VALUES_get(hands[i + 1][k])
                     ELSE -PIECE_VALUES_get(hands[i + 1][k])]
         IN  SumSeq(on_board) + SumSeq(in_hand(0)) + SumSeq(in_hand(1))

Inf == 1000000

RECURSIVE negamax(_, _, _, _)
RECURSIVE negamax_loop(_, _, _, _, _, _, _, _)
\* negamax handing back a move where the code returns -1 at depth 0.
negamax_leaf_move(s, depth, alpha, beta) ==
    IF game_is_terminal(s)
    THEN IF game_winner(s) = NoWinner THEN [best_move |-> -1, score |-> 0]
         ELSE IF game_winner(s) = s.current_player
              THEN [best_move |-> -1, score |-> 1000 + depth]
         ELSE [best_move |-> -1, score |-> -(1000 + depth)]
    ELSE LET moves == game_legal_moves(s)
         IN  IF depth = 0
             THEN [best_move |-> moves[1], score |-> evaluate(s)]
             ELSE negamax_loop(s, depth, moves, 1, alpha, beta, moves[1], -Inf)

\* negamax scoring every won or lost game alike, whatever depth is left.
negamax_flat_mate(s, depth, alpha, beta) ==
    IF game_is_terminal(s)
    THEN IF game_winner(s) = NoWinner THEN [best_move |-> -1, score |-> 0]
         ELSE IF game_winner(s) = s.current_player
              THEN [best_move |-> -1, score |-> 1000]
         ELSE [best_move |-> -1, score |-> -1000]
    ELSE IF depth = 0 THEN [best_move |-> -1, score |-> evaluate(s)]
    ELSE LET moves == game_legal_moves(s)
         IN  negamax_loop(s, depth, moves, 1, alpha, beta, moves[1], -Inf)

\* The loop left as soon as a move scores at least alpha.
negamax_loop_cut_on_alpha(s, depth, moves, i, alpha, beta, best_move, best_score) ==
    IF i > Len(moves) THEN [best_move |-> best_move, score |-> best_score]
    ELSE LET move == moves[i]
             next_state == game_apply_move(s, move)
             score == -(negamax(next_state, depth - 1, -beta, -alpha).score)
             better == score > best_score
             new_move == IF better THEN move ELSE best_move
             new_score == IF better THEN score ELSE best_score
             new_alpha == IF alpha > score THEN alpha ELSE score
         IN  IF score >= alpha
             THEN [best_move |-> new_move, score |-> new_score]
             ELSE negamax_loop(s, depth, moves, i + 1, new_alpha, beta,
                               new_move, new_score)

\* The body of `for move in moves`, from moves[i] on.
negamax_loop(s, depth, moves, i, alpha, beta, best_move, best_score) ==
    IF i > Len(moves) THEN [best_move |-> best_move, score |-> best_score]
    ELSE LET move == moves[i]
             next_state == game_apply_move(s, move)
             score == -(negamax(next_state, depth - 1, -beta, -alpha).score)
             better == score > best_score
             new_move == IF better THEN move ELSE best_move
             new_score == IF better THEN score ELSE best_score
             new_alpha == IF alpha > score THEN alpha ELSE score
         IN  IF new_alpha >= beta
             THEN [best_move |-> new_move, score |-> new_score]
             ELSE negamax_loop(s, depth, moves, i + 1, new_alpha, beta,
                               new_move, new_score)

negamax(s, depth, alpha, beta) ==
    IF game_is_terminal(s)
    THEN IF game_winner(s) = NoWinner THEN [best_move |-> -1, score |-> 0]
         ELSE IF game_winner(s) = s.current_player
              THEN [best_move |-> -1, score |-> 1000 + depth]
         ELSE [best_move |-> -1, score |-> -(1000 + depth)]
    ELSE IF depth = 0 THEN [best_move |-> -1, score |-> evaluate(s)]
    ELSE LET moves == game_legal_moves(s)
         IN  negamax_loop(s, depth, moves, 1, alpha, beta, moves[1], -Inf)

minimax_move(s, depth) == negamax(s, depth, -Inf, Inf).best_move

(***************************************************************************)
(* Calls of evaluate and negamax.  The positions are taken along recorded  *)
(* animal-shogi games and from full-shogi boards with few pieces; the      *)
(* depth and the window are the caller's.                                  *)
(***************************************************************************)
MaxAnimalDepth == 2

MaxFullDepth == 1

\* 1. Chick b3xb2  2. Giraffe a1-a2  3. Chick b2xb1: the lion is taken.
animal_line_lion_taken ==
    <<animal_encode_board_move(7, 4), animal_encode_board_move(0, 3),
      animal_encode_board_move(4, 1)>>

\* 1. Lion b4-a3  2. Giraffe a1-a2  3. Lion a3xa2  4. Lion b1-c2
\* 5. Lion a2-a1: the lion reaches the far rank where nothing can take it.
animal_line_try ==
    <<animal_encode_board_move(10, 6), animal_encode_board_move(0, 3),
      animal_encode_board_move(6, 3), animal_encode_board_move(1, 5),
      animal_encode_board_move(3, 0)>>

\* 1. Giraffe c4-c3  2. Chick b2xb3  3. Giraffe c3-c4: the second player's
\* chick can take the lion.
animal_line_lion_lost ==
    <<animal_encode_board_move(11, 8), animal_encode_board_move(4, 7),
      animal_encode_board_move(8, 11)>>

MinimaxLines ==
    <<animal_line_lion_taken, animal_line_try, animal_line_lion_march,
      animal_line_two_chicks, animal_line_lion_lost>>

MinimaxRoots ==
    UNION {{[variant |-> "animal",
             state |-> animal_play(animal_State(animal_Board, SENTE, 0),
                                   SubSeq(MinimaxLines[l], 1, n))] :
                n \in 0..Len(MinimaxLines[l])} : l \in 1..Len(MinimaxLines)}
    \cup {[variant |-> "full", state |-> full_State(b, SENTE, 0)] :
            b \in {full_board_kings, full_board_pinned}}
    \cup {MctsRoots[6]}

Windows == {<<-Inf, Inf>>, <<-1, 1>>, <<-Inf, 0>>}

InitMinimax ==
    /\ \E r \in MinimaxRoots :
          /\ variant = r.variant
          /\ board = r.state.board
          /\ current_player = r.state.current_player
          /\ move_count = r.state.move_count
    /\ scenario = 0
    /\ legal = game_legal_moves(state)
    /\ last_move = -1
    /\ codec = NoCodec
    /\ outcome = "none"
    /\ mcts = NoSearch
    /\ \E depth \in 0..(IF variant = "full" THEN MaxFullDepth
                        ELSE MaxAnimalDepth), w \in Windows :
          minimax = [phase |-> "called", depth |-> depth, alpha |-> w[1],
                     beta |-> w[2], best_move |-> -1, score |-> 0]
    /\ selfplay = NotRunning
    /\ arena = NotRunning
    /\ trainer = NotRunning

\* evaluate(state)
Evaluate ==
    /\ minimax.phase = "called"
    /\ minimax' = [minimax EXCEPT !.phase = "evaluated",
                                  !.score = evaluate(state)]
    /\ UNCHANGED <<variant, board, current_player, move_count, legal,
                   scenario, last_move, codec, outcome, mcts>>
    /\ UNCHANGED <<selfplay, arena, trainer>>

\* negamax(state, depth, alpha, beta)
Negamax ==
    /\ minimax.phase = "called"
    /\ LET r == negamax(state, minimax.depth, minimax.alpha, minimax.beta)
       IN  minimax' = [minimax EXCEPT !.phase = "returned",
                                      !.best_move = r.best_move,
                                      !.score = r.score]
    /\ UNCHANGED <<variant, board, current_player, move_count, legal,
                   scenario, last_move, codec, outcome, mcts>>
    /\ UNCHANGED <<selfplay, arena, trainer>>

SpecMinimax == InitMinimax /\ [][Evaluate \/ Negamax]_vars

(***************************************************************************)
(* training/self_play.py.  mcts.search followed by _select_move hands back *)
(* one of state.legal_moves(); which one depends on the network, which is  *)
(* given here as a policy: a recorded line it follows while the line's     *)
(* move is legal (`repeat`: over and over), and the first or the last      *)
(* legal move otherwise.  Sampling shows as a free choice among the legal  *)
(* moves for MaxSampledPlies plies after the line of a policy that goes on *)
(* with the first legal move.  Of a training example the ply and the       *)
(* player to move are kept.                                                *)
(***************************************************************************)
MaxSampledPlies == 1

\* 1. Giraffe c4-c3  2. Giraffe a1-a2  3. Giraffe c3-c4  4. Giraffe a2-a1:
\* the starting position again.
animal_line_shuffle ==
    <<animal_encode_board_move(11, 8), animal_encode_board_move(0, 3),
      animal_encode_board_move(8, 11), animal_encode_board_move(3, 0)>>

Policies ==
    {[line |-> <<>>, then |-> "first"],
     [line |-> <<>>, then |-> "last"],
     [line |-> animal_line_lion_taken, then |-> "first"],
     [line |-> animal_line_lion_lost, then |-> "last"],
     [line |-> animal_line_lion_lost, then |-> "first"],
     [line |-> animal_line_try, then |-> "first"],
     [line |-> animal_line_shuffle, then |-> "repeat"]}

\* The move a policy plays at ply n of a game, in state s.
policy_move(policy, s, n) ==
    LET moves == game_legal_moves(s)
        k == IF policy.then = "repeat" THEN (n % Len(policy.line)) + 1
             ELSE n + 1
    IN  IF k <= Len(policy.line) /\ policy.line[k] \in Range(moves)
        THEN policy.line[k]
        ELSE IF policy.then = "last" THEN moves[Len(moves)] ELSE moves[1]

\* The moves _select_move(mcts.search(state), state.legal_moves()) can
\* return at ply n.
select_move(policy, s, n) ==
    IF /\ policy.then = "first"
       /\ n >= Len(policy.line)
       /\ n < Len(policy.line) + MaxSampledPlies
    THEN Range(game_legal_moves(s))
    ELSE {policy_move(policy, s, n)}

temperature_threshold == 10

play_game_max_moves == 200

\* The states self-play and the arena start from.
InitialStates ==
    {[variant |-> "animal", state |-> animal_State(animal_Board, SENTE, 0)],
     MctsRoots[4], MctsRoots[6]}

StartGame(r) ==
    /\ variant = r.variant
    /\ board = r.state.board
    /\ current_player = r.state.current_player
    /\ move_count = r.state.move_count
    /\ scenario = 0
    /\ legal = game_legal_moves(state)
    /\ last_move = -1
    /\ codec = NoCodec
    /\ outcome = "none"
    /\ mcts = NoSearch

\* The loop of play_game running on without the move cap.
play_game_continues_uncapped(s, n) == ~game_is_terminal(s)

\* The loop of play_game running while there is a legal move.
play_game_continues_while_movable(s, n) ==
    game_legal_moves(s) # <<>> /\ n < play_game_max_moves

\* while not state.is_terminal and move_count < max_moves
play_game_continues(s, n) ==
    ~game_is_terminal(s) /\ n < play_game_max_moves

\* Every example of a decided game valued +1.
value_target_unsigned(winner, player) == IF winner = NoWinner THEN 0 ELSE 1

\* The value given to an example recorded with `player` to move.
value_target(winner, player) ==
    IF winner = NoWinner THEN 0
    ELSE IF winner = player THEN 1
    ELSE -1

InitSelfPlay ==
    /\ \E r \in InitialStates : StartGame(r)
    /\ selfplay \in [phase : {"playing"}, network : Policies, move_count : {0},
                     temperature : {<<1, 1>>}, examples : {<<>>},
                     result : {<<>>}]
    /\ minimax = NotRunning
    /\ arena = NotRunning
    /\ trainer = NotRunning

\* One pass of the while loop of play_game.
SelfPlayMove ==
    /\ selfplay.phase = "playing"
    /\ play_game_continues(state, selfplay.move_count)
    /\ \E move \in select_move(selfplay.network, state, selfplay.move_count) :
          LET next_state == game_apply_move(state, move)
          IN  /\ board' = next_state.board
              /\ current_player' = next_state.current_player
              /\ move_count' = next_state.move_count
              /\ legal' = game_legal_moves(next_state)
              /\ last_move' = move
    /\ selfplay' =
          [selfplay EXCEPT
              !.temperature =
                  IF selfplay.move_count < temperature_threshold
                  THEN <<1, 1>> ELSE <<1, 100>>,
              !.examples = Append(@, [ply |-> selfplay.move_count,
                                      player |-> current_player]),
              !.move_count = @ + 1]
    /\ UNCHANGED <<variant, scenario, codec, outcome, mcts>>
    /\ UNCHANGED <<minimax, arena, trainer>>

\* The end of play_game, once the loop is over: every example gets its
\* value target.
SelfPlayFinish ==
    /\ selfplay.phase = "playing"
    /\ ~play_game_continues(state, selfplay.move_count)
    /\ LET winner == game_winner(state)
       IN  selfplay' =
              [selfplay EXCEPT
                  !.phase = "returned",
                  !.result =
                      [i \in 1..Len(selfplay.examples) |->
                          [ply |-> selfplay.examples[i].ply,
                           value_target |->
                               value_target(winner,
                                            selfplay.examples[i].player)]]]
    /\ UNCHANGED <<variant, board, current_player, move_count, legal,
                   scenario, last_move, codec, outcome, mcts>>
    /\ UNCHANGED <<minimax, arena, trainer>>

SpecSelfPlay == InitSelfPlay /\ [][SelfPlayMove \/ SelfPlayFinish]_vars

\* play_game runs to its end once called: nothing in it waits, so a step
\* that can be taken is taken.  This is weak fairness of the two steps,
\* WF_vars(SelfPlayMove) and WF_vars(SelfPlayFinish), with the condition
\* under which each step can be taken written out from its guard.
SpecSelfPlayFair ==
    /\ SpecSelfPlay
    /\ \/ []<>~(/\ selfplay.phase = "playing"
                /\ play_game_continues(state, selfplay.move_count))
       \/ []<><<SelfPlayMove>>_vars
    /\ \/ []<>~(/\ selfplay.phase = "playing"
                /\ ~play_game_continues(state, selfplay.move_count))
       \/ []<><<SelfPlayFinish>>_vars

(***************************************************************************)
(* training/arena.py: pit.  A move selector is a policy; initial_state is  *)
(* kept in `arena` to start each game from.  `caller` is the selector that *)
(* chose the last move and `log` the games tallied so far: who sat first,  *)
(* how many plies were played, the final state's winner and the counter    *)
(* that was raised.                                                        *)
(***************************************************************************)
MaxArenaGames == 2

MaxArenaMoves == 7

ArenaPlayers ==
    {[line |-> <<>>, then |-> "first"],
     [line |-> <<>>, then |-> "last"],
     [line |-> animal_line_try, then |-> "first"],
     [line |-> animal_line_lion_lost, then |-> "last"]}

\* if game_idx % 2 == 0: p1_is_sente = True ... else: p1_is_sente = False
p1_is_sente(game_idx) == game_idx % 2 = 0

\* A game cut short by max_moves counted nowhere.
pit_result_decided(winner, n, max_moves, first) ==
    IF winner = NoWinner \/ n >= max_moves THEN "none"
    ELSE IF (winner = 0 /\ first) \/ (winner = 1 /\ ~first) THEN "p1_wins"
    ELSE "p2_wins"

\* The counter raised for a game that ended with `winner` after move_count
\* plies.
pit_result(winner, n, max_moves, first) ==
    IF winner = NoWinner \/ n >= max_moves THEN "draws"
    ELSE IF (winner = 0 /\ first) \/ (winner = 1 /\ ~first) THEN "p1_wins"
    ELSE "p2_wins"

InitArena ==
    /\ \E r \in InitialStates :
          /\ StartGame(r)
          /\ arena \in [phase : {"playing"}, player1_fn : ArenaPlayers,
                        player2_fn : ArenaPlayers, initial_state : {r.state},
                        num_games : 0..MaxArenaGames,
                        max_moves : 0..MaxArenaMoves,
                        game_idx : {0}, move_count : {0}, caller : {"none"},
                        p1_wins : {0}, p2_wins : {0}, draws : {0},
                        log : {<<>>}]
    /\ minimax = NotRunning
    /\ selfplay = NotRunning
    /\ trainer = NotRunning

\* One pass of the while loop of a game.
ArenaMove ==
    /\ arena.phase = "playing"
    /\ arena.game_idx < arena.num_games
    /\ ~game_is_terminal(state)
    /\ arena.move_count < arena.max_moves
    /\ LET p1_moves == (current_player = 0) = p1_is_sente(arena.game_idx)
           fn == IF p1_moves THEN arena.player1_fn ELSE arena.player2_fn
           move == policy_move(fn, state, arena.move_count)
           next_state == game_apply_move(state, move)
       IN  /\ board' = next_state.board
           /\ current_player' = next_state.current_player
           /\ move_count' = next_state.move_count
           /\ legal' = game_legal_moves(next_state)
           /\ last_move' = move
           /\ arena' = [arena EXCEPT
                           !.move_count = @ + 1,
                           !.caller = IF p1_moves THEN "player1_fn"
                                      ELSE "player2_fn"]
    /\ UNCHANGED <<variant, scenario, codec, outcome, mcts>>
    /\ UNCHANGED <<minimax, selfplay, trainer>>

\* The end of a game: the tally, and the next game set up from
\* initial_state.
ArenaTally ==
    /\ arena.phase = "playing"
    /\ arena.game_idx < arena.num_games
    /\ ~(~game_is_terminal(state) /\ arena.move_count < arena.max_moves)
    /\ LET winner == game_winner(state)
           counter == pit_result(winner, arena.move_count, arena.max_moves,
                                 p1_is_sente(arena.game_idx))
       IN  arena' = [arena EXCEPT
                        !.p1_wins = IF counter = "p1_wins" THEN @ + 1 ELSE @,
                        !.p2_wins = IF counter = "p2_wins" THEN @ + 1 ELSE @,
                        !.draws = IF counter = "draws" THEN @ + 1 ELSE @,
                        !.log = Append(@, [p1_is_sente |->
                                               p1_is_sente(arena.game_idx),
                                           plies |-> arena.move_count,
                                           winner |-> winner,
                                           counted |-> counter]),
                        !.game_idx = @ + 1,
                        !.move_count = 0,
                        !.caller = "none"]
    /\ board' = arena.initial_state.board
    /\ current_player' = arena.initial_state.current_player
    /\ move_count' = arena.initial_state.move_count
    /\ legal' = game_legal_moves(arena.initial_state)
    /\ last_move' = -1
    /\ UNCHANGED <<variant, scenario, codec, outcome, mcts>>
    /\ UNCHANGED <<minimax, selfplay, trainer>>

\* return p1_wins, p2_wins, draws
ArenaReturn ==
    /\ arena.phase = "playing"
    /\ arena.game_idx = arena.num_games
    /\ arena' = [arena EXCEPT !.phase = "returned"]
    /\ UNCHANGED <<variant, board, current_player, move_count, legal,
                   scenario, last_move, codec, outcome, mcts>>
    /\ UNCHANGED <<minimax, selfplay, trainer>>

SpecArena == InitArena /\ [][ArenaMove \/ ArenaTally \/ ArenaReturn]_vars

(***************************************************************************)
(* training/train_loop.py: run_training, the thread that sets stop_event   *)
(* (web/app.py: train_stop) and the consumer of progress_queue (web/app.py:*)
(* train_stream).  The file at model_path is <<>> while absent and <<n>>   *)
(* when it holds the state_dict of network object n.  A step of            *)
(* run_training is the reading of stop_event, or one phase, or the end of  *)
(* torch.save, or the generation_done record.  pit is played by networks,  *)
(* so any counts it can return are taken.  Of a record only the fields    *)
(* type, phase, generation, total and adopted are kept.  `emitted` keeps   *)
(* every record ever put on the queue, `log` what each generation decided, *)
(* `records_at_stop` how many records had been put when stop_event was set.*)
(***************************************************************************)
MaxGenerations == 2

WinRateThresholds == {<<55, 100>>, <<0, 1>>, <<1, 2>>, <<1, 1>>}

\* The file at model_path while torch.save has opened it for writing and has
\* not yet closed it.
PartialFile == <<NoIndex>>

\* The counts pit can return for num_games games.
pit_counts(num_games) ==
    {c \in (0..num_games) \X (0..num_games) \X (0..num_games) :
        c[1] + c[2] + c[3] = num_games}

phase_record(generation, total, phase) ==
    [type |-> "phase", generation |-> generation + 1, total |-> total,
     phase |-> phase]

\* Adoption with the drawn games left out of the total.
adopted_decided_games(new_wins, old_wins, draws, threshold) ==
    LET total == new_wins + old_wins
    IN  IF total > 0 THEN new_wins * threshold[2] >= threshold[1] * total
        ELSE 0 >= threshold[1]

\* win_rate = new_wins / total if total > 0 else 0.0;
\* adopted = win_rate >= win_rate_threshold, the threshold being the
\* fraction threshold[1] / threshold[2].
adopted(new_wins, old_wins, draws, threshold) ==
    LET total == new_wins + old_wins + draws
    IN  IF total > 0 THEN new_wins * threshold[2] >= threshold[1] * total
        ELSE 0 >= threshold[1]

\* Network objects live in `networks`, object n at networks[n + 1]; a
\* variable of the code that holds a network holds its number.  The weights
\* of an object are the list of what has changed them: g for the optimizer
\* steps of generation g, 0 for a forward pass made in training mode (which
\* moves the running statistics of the batch normalisation layers).
DualHeadNetwork == [weights |-> <<>>, training |-> TRUE]

\* network.eval()
eval(networks, n) == [networks EXCEPT ![n + 1].training = FALSE]

\* A forward pass of object n.
forward(networks, n) ==
    IF networks[n + 1].training
    THEN [networks EXCEPT ![n + 1].weights = Append(@, 0)]
    ELSE networks

\* engine/mcts.py, MCTS._evaluate: self.network.eval(), then the forward pass
\* under torch.no_grad().
mcts_evaluate(networks, n) == forward(eval(networks, n), n)

\* The challenger is the best network itself and no copy of it.
deepcopy_same_object(networks, n) == [networks |-> networks, network |-> n]

\* copy.deepcopy(network): a new object with the same weights and mode.
deepcopy(networks, n) ==
    [networks |-> Append(networks, networks[n + 1]),
     network |-> Len(networks)]

\* Trainer(network, ...).train(data): training mode, then forward passes and
\* optimizer steps on the network the trainer was built with.
train(networks, n, generation) ==
    [networks EXCEPT ![n + 1].training = TRUE,
                     ![n + 1].weights = Append(@, generation + 1)]

\* The state in which run_training starts its loop, train_start having
\* returned: the best network is built (and loaded from model_path where
\* that exists), `running` is set, the queue is empty.
TrainingStarted(num_generations, arena_games, win_rate_threshold, model_file) ==
    [pc |-> "loop", generation |-> 0,
     num_generations |-> num_generations,
     arena_games |-> arena_games,
     win_rate_threshold |-> win_rate_threshold,
     networks |-> <<DualHeadNetwork>>,
     best_network |-> 0, new_network |-> 0, data_network |-> 0,
     new_wins |-> 0, old_wins |-> 0, draws |-> 0, adopted |-> FALSE,
     best_before |-> 0, file_before |-> model_file,
     model_file |-> model_file, loaded |-> <<>>,
     running |-> TRUE, stop_event |-> FALSE, records_at_stop |-> NoIndex,
     progress_queue |-> <<>>, emitted |-> <<>>, received |-> <<>>,
     log |-> <<>>, session |-> 1, response |-> "started"]

InitTraining ==
    /\ StartGame([variant |-> "animal",
                  state |-> animal_State(animal_Board, SENTE, 0)])
    /\ \E num_generations \in 0..MaxGenerations,
          arena_games \in 0..MaxArenaGames,
          win_rate_threshold \in WinRateThresholds,
          model_file \in {<<>>, <<0>>} :
          trainer = TrainingStarted(num_generations, arena_games,
                                    win_rate_threshold, model_file)
    /\ minimax = NotRunning
    /\ selfplay = NotRunning
    /\ arena = NotRunning

put(record) ==
    [trainer EXCEPT !.progress_queue = Append(@, record),
                    !.emitted = Append(@, record)]

TrainerUnchanged ==
    /\ UNCHANGED <<variant, board, current_player, move_count, legal,
                   scenario, last_move, codec, outcome, mcts>>
    /\ UNCHANGED <<minimax, selfplay, arena>>

\* The places where run_training reads stop_event, and the phase each leads
\* to when the flag is not set.
CheckPoints ==
    [loop |-> "self_play", after_self_play |-> "training",
     after_training |-> "arena"]

AtCheckPoint ==
    /\ trainer.pc \in DOMAIN CheckPoints
    /\ trainer.pc = "loop" => trainer.generation < trainer.num_generations

\* `stopped` put without run_training returning.
TrainingStopped_goes_on ==
    /\ AtCheckPoint
    /\ trainer.stop_event
    /\ trainer' = put([type |-> "stopped"])
    /\ TrainerUnchanged

\* `done` put at the head of any generation.
TrainingDone_early ==
    /\ trainer.pc = "loop"
    /\ trainer' = [put([type |-> "done"]) EXCEPT !.pc = "returned"]
    /\ TrainerUnchanged

\* The phase is started whatever stop_event holds.
TrainingCheck_unread ==
    /\ AtCheckPoint
    /\ trainer' = [trainer EXCEPT !.pc = CheckPoints[trainer.pc]]
    /\ TrainerUnchanged

\* if stop_event.is_set(): found set at the head of a generation, after
\* self-play or after training: `stopped` is put and run_training returns.
TrainingStopped ==
    /\ AtCheckPoint
    /\ trainer.stop_event
    /\ trainer' = [put([type |-> "stopped"]) EXCEPT !.pc = "returned"]
    /\ TrainerUnchanged

\* if stop_event.is_set(): found not set, run_training goes on to the phase.
TrainingCheck ==
    /\ AtCheckPoint
    /\ ~trainer.stop_event
    /\ trainer' = [trainer EXCEPT !.pc = CheckPoints[trainer.pc]]
    /\ TrainerUnchanged

\* Phase 1: the record, best_network.eval(), then self-play, whose searches
\* evaluate positions with the best network.
TrainingSelfPlay ==
    /\ trainer.pc = "self_play"
    /\ trainer' =
          [put(phase_record(trainer.generation, trainer.num_generations,
                            "self_play"))
              EXCEPT !.pc = "after_self_play",
                     !.networks =
                         mcts_evaluate(eval(@, trainer.best_network),
                                       trainer.best_network),
                     !.data_network = trainer.best_network]
    /\ TrainerUnchanged

\* Phase 2: the record, then a copy of the best network is trained.
TrainingTrain ==
    /\ trainer.pc = "training"
    /\ LET copy == deepcopy(trainer.networks, trainer.best_network)
       IN  trainer' =
              [put(phase_record(trainer.generation, trainer.num_generations,
                                "training"))
                  EXCEPT !.pc = "after_training",
                         !.new_network = copy.network,
                         !.networks = train(copy.networks, copy.network,
                                            trainer.generation)]
    /\ TrainerUnchanged

\* Phases 3 and 4 up to the opening of the file: the record, both networks
\* set to eval, the arena, the decision, and for an adopted challenger
\* best_network = new_network and torch.save begun.
TrainingArena ==
    /\ trainer.pc = "arena"
    /\ \E c \in pit_counts(trainer.arena_games) :
          LET new_wins == c[1]
              old_wins == c[2]
              draws == c[3]
              is_adopted == adopted(new_wins, old_wins, draws,
                                    trainer.win_rate_threshold)
              played ==
                  mcts_evaluate(
                      mcts_evaluate(
                          eval(eval(trainer.networks, trainer.new_network),
                               trainer.best_network),
                          trainer.new_network),
                      trainer.best_network)
          IN  trainer' =
                 [put(phase_record(trainer.generation,
                                   trainer.num_generations, "arena"))
                     EXCEPT !.pc = IF is_adopted THEN "save"
                                   ELSE "generation_done",
                            !.networks = played,
                            !.new_wins = new_wins,
                            !.old_wins = old_wins,
                            !.draws = draws,
                            !.adopted = is_adopted,
                            !.best_before = trainer.best_network,
                            !.file_before = trainer.model_file,
                            !.best_network = IF is_adopted
                                             THEN trainer.new_network
                                             ELSE trainer.best_network,
                            !.model_file = IF is_adopted THEN PartialFile
                                           ELSE trainer.model_file]
    /\ TrainerUnchanged

\* torch.save(best_network.state_dict(), model_path) has written the whole
\* file and closed it.
TrainingSave ==
    /\ trainer.pc = "save"
    /\ trainer' = [trainer EXCEPT !.pc = "generation_done",
                                  !.model_file = <<trainer.best_network>>]
    /\ TrainerUnchanged

\* The generation_done record; the for loop goes to the next generation.
TrainingGenerationDone ==
    /\ trainer.pc = "generation_done"
    /\ trainer' =
          [put([type |-> "generation_done",
                generation |-> trainer.generation + 1,
                total |-> trainer.num_generations,
                adopted |-> trainer.adopted])
              EXCEPT !.pc = "loop",
                     !.generation = @ + 1,
                     !.log = Append(@, [data_network |-> trainer.data_network,
                                        best_before |-> trainer.best_before,
                                        file_before |-> trainer.file_before,
                                        new_network |-> trainer.new_network,
                                        adopted |-> trainer.adopted,
                                        best_after |-> trainer.best_network,
                                        file_after |-> trainer.model_file])]
    /\ TrainerUnchanged

\* The for loop is over: `done` is put and run_training returns.
TrainingDone ==
    /\ trainer.pc = "loop"
    /\ trainer.generation = trainer.num_generations
    /\ trainer' = [put([type |-> "done"]) EXCEPT !.pc = "returned"]
    /\ TrainerUnchanged

\* A step of the thread that runs run_training.
RunTraining ==
    \/ TrainingStopped
    \/ TrainingCheck
    \/ TrainingSelfPlay
    \/ TrainingTrain
    \/ TrainingArena
    \/ TrainingSave
    \/ TrainingGenerationDone
    \/ TrainingDone

\* web/app.py, train_stop: 400 unless `running`, else
\* _train_state["stop_event"].set()
SetStopEvent ==
    /\ trainer.running
    /\ ~trainer.stop_event
    /\ trainer' = [trainer EXCEPT !.stop_event = TRUE,
                                  !.records_at_stop = Len(trainer.emitted)]
    /\ TrainerUnchanged

\* web/app.py, train_stream: q.get(timeout=1) hands over the oldest record;
\* on `done` or `stopped` the generator clears `running` and ends.
GetRecord ==
    /\ trainer.progress_queue # <<>>
    /\ LET event == Head(trainer.progress_queue)
       IN  trainer' = [trainer EXCEPT
                          !.received = Append(@, event),
                          !.progress_queue = Tail(@),
                          !.running = IF event.type \in {"done", "stopped"}
                                      THEN FALSE ELSE @]
    /\ TrainerUnchanged

SpecTraining ==
    InitTraining /\ [][\/ TrainingStopped \/ TrainingCheck
                       \/ TrainingSelfPlay \/ TrainingTrain
                       \/ TrainingArena \/ TrainingSave
                       \/ TrainingGenerationDone \/ TrainingDone
                       \/ SetStopEvent \/ GetRecord]_vars

\* run_training is a thread of its own (threading.Thread(...).start()): it
\* goes on whatever the web layer does.
SpecTrainingFair == SpecTraining /\ WF_vars(RunTraining)

(***************************************************************************)
(* web/app.py: the training session kept in _train_state (train_start,     *)
(* train_stream, train_status, train_stop) and the loading of the file at  *)
(* model_path for an MCTS opponent (_get_ai_fn).  The endpoints are        *)
(* coroutines of one event loop, so each runs whole between two awaits.    *)
(* train_start builds TrainLoopConfig with its defaults (arena_games 10,   *)
(* win_rate_threshold 0.55); the arena is cut to MaxArenaGames games.      *)
(* `response` is what the last train_start or train_status was answered,   *)
(* `loaded` what the last torch.load of _get_ai_fn read.                   *)
(***************************************************************************)
MaxSessions == 2

default_win_rate_threshold == <<55, 100>>

\* _train_state before any train_start: no thread, `running` False.
InitWeb ==
    /\ StartGame([variant |-> "animal",
                  state |-> animal_State(animal_Board, SENTE, 0)])
    /\ \E model_file \in {<<>>, <<0>>} :
          trainer = [TrainingStarted(0, MaxArenaGames,
                                     default_win_rate_threshold, model_file)
                        EXCEPT !.pc = "none", !.running = FALSE,
                               !.session = 0, !.response = "none"]
    /\ minimax = NotRunning
    /\ selfplay = NotRunning
    /\ arena = NotRunning

\* train_start: 400 while `running`; otherwise a new queue, a new stop_event
\* and a new thread, and `running` set.
TrainStart ==
    /\ trainer.session < MaxSessions
    /\ \E num_generations \in 0..MaxGenerations :
          trainer' =
             IF trainer.running
             THEN [trainer EXCEPT !.response = "400"]
             ELSE [TrainingStarted(num_generations, MaxArenaGames,
                                   default_win_rate_threshold,
                                   trainer.model_file)
                      EXCEPT !.session = trainer.session + 1,
                             !.loaded = trainer.loaded]
    /\ TrainerUnchanged

\* train_status: {"running": _train_state.get("running", False), ...}
TrainStatus ==
    /\ trainer' = [trainer EXCEPT !.response = IF trainer.running
                                               THEN "running"
                                               ELSE "not running"]
    /\ TrainerUnchanged

\* _get_ai_fn, ai_type "mcts": if Path(model_path_str).exists() the file is
\* read with torch.load.
GetAiFn ==
    /\ trainer.model_file # <<>>
    /\ trainer' = [trainer EXCEPT !.loaded = trainer.model_file]
    /\ TrainerUnchanged

\* run_training next to a web layer that loads the file at model_path.
SpecPersist ==
    InitTraining /\ [][\/ TrainingStopped \/ TrainingCheck
                       \/ TrainingSelfPlay \/ TrainingTrain
                       \/ TrainingArena \/ TrainingSave
                       \/ TrainingGenerationDone \/ TrainingDone
                       \/ SetStopEvent \/ GetAiFn]_vars

SpecWeb ==
    InitWeb /\ [][\/ TrainStart \/ TrainStatus
                  \/ TrainingStopped \/ TrainingCheck
                  \/ TrainingSelfPlay \/ TrainingTrain
                  \/ TrainingArena \/ TrainingSave
                  \/ TrainingGenerationDone \/ TrainingDone
                  \/ SetStopEvent \/ GetRecord]_vars

\* The thread of run_training goes on by itself and requests to
\* train_status keep being answered; nothing makes a client read
\* /api/train/stream.
SpecWebFair == SpecWeb /\ WF_vars(RunTraining) /\ WF_vars(TrainStatus)

(***************************************************************************)
(* Properties of the full-shogi rule engine.                               *)
(***************************************************************************)
full_kings_present(b) == \A p \in Player : full_find_king(b, p) # NoIndex

full_is_drop(move) == move >= full_DROP_MOVE_BASE

full_drop_kind(move) == full_decode_move(move).piece_type

full_to_row(move) == full_decode_move(move).to[1]

full_to_col(move) == full_decode_move(move).to[2]

full_to_idx(move) == full_to_row(move) * full_COLS + full_to_col(move)

full_from_idx(move) ==
    full_decode_move(move).from[1] * full_COLS + full_decode_move(move).from[2]

\* The rank a piece of `player` can never leave moving forward, and the two
\* farthest ranks.
full_final_rank(player, row) == IF player = SENTE THEN row = 0 ELSE row = 8

full_last_two_ranks(player, row) ==
    IF player = SENTE THEN row \in {0, 1} ELSE row \in {7, 8}

\* C1: every move of legal_moves(b, p), for either player p of a board with
\* both kings, leaves p's own king un-attacked.
C1_KingSafety ==
    (variant = "full" /\ full_kings_present(board)) =>
        \A p \in Player :
            \A move \in Range(IF p = current_player THEN legal
                               ELSE full_legal_moves(board, p)) :
                ~full_is_in_check(full_apply_move(board, p, move), p)

\* A move has been played into a position where the side to move is in
\* check, some pseudo-legal moves (a king step, a drop) are filtered out and
\* a drop is among the legal replies.
C1_Witness ==
    /\ variant = "full"
    /\ last_move # -1
    /\ full_is_in_check(board, current_player)
    /\ \E move \in Range(legal) : full_is_drop(move)
    /\ \E move \in Range(full_pseudo_legal_moves(board, current_player)) :
          /\ ~full_is_drop(move)
          /\ board.squares[full_from_idx(move)].piece_type = KING
          /\ move \notin Range(legal)

\* C2: both kings are on the board in every state reached by legal moves,
\* and in every state one further legal move leads to.
C2_KingsNeverCaptured ==
    variant = "full" =>
        /\ full_kings_present(board)
        /\ \A move \in Range(legal) :
              full_kings_present(full_apply_move(board, current_player, move))

\* From the standard starting position a check has been given and answered
\* by capturing the checking piece.
C2_Witness ==
    /\ variant = "full"
    /\ scenario = 1
    /\ move_count = Len(full_line_bishop_exchange) + 1
    /\ full_to_idx(last_move) = full_to_idx(full_line_bishop_exchange[5])
    /\ ~full_is_in_check(board, opponent(current_player))
    /\ full_kings_present(board)

\* C3: a pawn drop that checks the opponent and leaves it without a legal
\* move is not in legal_moves.
C3_Uchifuzume ==
    variant = "full" =>
        \A move \in Range(legal) :
            (full_is_drop(move) /\ full_drop_kind(move) = PAWN) =>
                LET after == full_apply_move(board, current_player, move)
                IN  ~(/\ full_is_in_check(after, opponent(current_player))
                      /\ Len(full_legal_moves(after, opponent(current_player))) = 0)

\* The unpromoted pawns of `player` standing in column col.
full_own_pawns(b, player, col) ==
    {r \in 0..(full_ROWS - 1) : b.squares[r * full_COLS + col] = Piece(PAWN, player)}

\* C4: every pawn drop of legal_moves goes to a column without an unpromoted
\* pawn of the dropping player (count_pawns_in_column is 0 there); a promoted
\* pawn of the dropper or a pawn of the opponent in the column does not keep
\* the drop from being generated.
C4_Nifu ==
    variant = "full" =>
        /\ \A move \in Range(legal) :
              (full_is_drop(move) /\ full_drop_kind(move) = PAWN) =>
                  /\ full_count_pawns_in_column(board, current_player,
                                                full_to_col(move)) = 0
                  /\ full_own_pawns(board, current_player, full_to_col(move)) = {}
        /\ PAWN \in Range(board.hands[current_player + 1]) =>
              \A idx \in 0..(full_NUM_SQUARES - 1) :
                  (/\ board.squares[idx] = None
                   /\ ~full_final_rank(current_player, idx \div full_COLS)
                   /\ full_own_pawns(board, current_player, idx % full_COLS) = {})
                      => full_encode_drop_move(PAWN, idx)
                            \in Range(full_pseudo_legal_moves(board, current_player))

\* A pawn has just been dropped into a column that holds a promoted pawn of
\* the dropper, while another column holds an unpromoted one.
C4_Witness ==
    /\ variant = "full"
    /\ last_move # -1
    /\ full_is_drop(last_move)
    /\ full_drop_kind(last_move) = PAWN
    /\ \E r \in 0..(full_ROWS - 1) :
          full_piece_at(board, r, full_to_col(last_move))
              = Piece(PRO_PAWN, opponent(current_player))
    /\ \E c \in 0..(full_COLS - 1) :
          /\ c # full_to_col(last_move)
          /\ full_count_pawns_in_column(board, opponent(current_player), c) = 1

\* C5: no drop of legal_moves puts a PAWN or LANCE on the dropper's final
\* rank or a KNIGHT on its two farthest ranks, and every drop targets an
\* empty square.
C5_DeadPieceDrops ==
    variant = "full" =>
        \A move \in Range(legal) :
            full_is_drop(move) =>
                /\ board.squares[full_to_idx(move)] = None
                /\ full_drop_kind(move) \in {PAWN, LANCE} =>
                      ~full_final_rank(current_player, full_to_row(move))
                /\ full_drop_kind(move) = KNIGHT =>
                      ~full_last_two_ranks(current_player, full_to_row(move))

\* A knight has just been dropped by the second player on row 6, the
\* farthest rank it may be dropped on.
C5_Witness ==
    /\ variant = "full"
    /\ last_move # -1
    /\ full_is_drop(last_move)
    /\ full_drop_kind(last_move) = KNIGHT
    /\ current_player = SENTE
    /\ full_to_row(last_move) = 6
    /\ board.squares[full_to_idx(last_move)] = Piece(KNIGHT, GOTE)

\* Promotion is forced for the kind on arrival at to_row: the piece could
\* never move again.
full_dead_landing(pt, player, to_row) ==
    \/ pt \in {PAWN, LANCE} /\ full_final_rank(player, to_row)
    \/ pt = KNIGHT /\ full_last_two_ranks(player, to_row)

\* C6: a board move that lands an unpromoted PAWN or LANCE on the final rank
\* or a KNIGHT on the last two ranks is generated exactly once, with the
\* promote flag set; legal_moves holds no unflagged move of that kind.
C6_MandatoryPromotion ==
    variant = "full" =>
        LET pseudo == full_pseudo_legal_moves(board, current_player)
            dead(move) ==
                /\ ~full_is_drop(move)
                /\ full_dead_landing(board.squares[full_from_idx(move)].piece_type,
                                     current_player, full_to_row(move))
        IN  /\ \A i \in 1..Len(pseudo) :
                  dead(pseudo[i]) =>
                      /\ full_decode_move(pseudo[i]).promote
                      /\ Cardinality({j \in 1..Len(pseudo) :
                            /\ ~full_is_drop(pseudo[j])
                            /\ full_from_idx(pseudo[j]) = full_from_idx(pseudo[i])
                            /\ full_to_idx(pseudo[j]) = full_to_idx(pseudo[i])}) = 1
            /\ \A move \in Range(legal) :
                  dead(move) => full_decode_move(move).promote

\* A pawn of the second player has just arrived on row 8 and stands there
\* promoted.
C6_Witness ==
    /\ variant = "full"
    /\ last_move # -1
    /\ ~full_is_drop(last_move)
    /\ full_decode_move(last_move).promote
    /\ current_player = SENTE
    /\ full_to_row(last_move) = 8
    /\ full_decode_move(last_move).from[1] = 7
    /\ board.squares[full_to_idx(last_move)] = Piece(PRO_PAWN, GOTE)

\* The piece of `player` on from_idx reaches to_idx: the attack test of the
\* check detection, and the target is not an own piece.
full_reaches(b, player, from_idx, to_idx) ==
    /\ from_idx # to_idx
    /\ full_attacks_square(b, b.squares[from_idx], from_idx,
                           to_idx \div full_COLS, to_idx % full_COLS, player)
    /\ \/ b.squares[to_idx] = None
       \/ b.squares[to_idx].owner # player

\* C7: for a promotable kind the promote-flagged move is generated exactly
\* for the reachable targets with origin or destination row in the promotion
\* zone, together with the unflagged move unless promotion is forced; other
\* kinds never get a promote-flagged move.
C7_OptionalPromotion ==
    variant = "full" =>
        LET generated == Range(full_pseudo_legal_moves(board, current_player))
            squares == 0..(full_NUM_SQUARES - 1)
            zone(row) == IF current_player = SENTE THEN row \in 0..2 ELSE row \in 6..8
        IN  \A from_idx \in squares :
                (board.squares[from_idx] # None
                 /\ board.squares[from_idx].owner = current_player) =>
                    LET pt == board.squares[from_idx].piece_type
                    IN  \A to_idx \in squares :
                            LET flagged == full_encode_board_move(from_idx, to_idx, TRUE)
                                plain == full_encode_board_move(from_idx, to_idx, FALSE)
                                in_zone == zone(from_idx \div full_COLS)
                                           \/ zone(to_idx \div full_COLS)
                                reach == full_reaches(board, current_player,
                                                      from_idx, to_idx)
                            IN  IF pt \in {PAWN, LANCE, KNIGHT, SILVER, BISHOP, ROOK}
                                THEN /\ flagged \in generated <=> (reach /\ in_zone)
                                     /\ (flagged \in generated
                                         /\ ~full_dead_landing(pt, current_player,
                                                to_idx \div full_COLS))
                                            => plain \in generated
                                ELSE flagged \notin generated

\* A rook of the first player has just left the promotion zone and promoted
\* on the way out.
C7_Witness ==
    /\ variant = "full"
    /\ last_move # -1
    /\ ~full_is_drop(last_move)
    /\ full_decode_move(last_move).promote
    /\ current_player = GOTE
    /\ full_decode_move(last_move).from[1] <= 2
    /\ full_to_row(last_move) > 2
    /\ board.squares[full_to_idx(last_move)] = Piece(DRAGON, SENTE)

(***************************************************************************)
(* Properties of the animal-shogi rule engine and of terminal detection.   *)
(***************************************************************************)
animal_lions_present(b) == \A p \in Player : animal_find_lion(b, p) # NoIndex

animal_is_board_move(move) == move < animal_DROP_OFFSET

animal_from_idx(move) ==
    animal_decode_move(move).from[1] * animal_COLS + animal_decode_move(move).from[2]

animal_to_idx(move) ==
    animal_decode_move(move).to[1] * animal_COLS + animal_decode_move(move).to[2]

\* The opponent's back rank, seen from `player`.
animal_far_rank(player) == IF player = SENTE THEN 0 ELSE 3

\* Some piece of `player` stands one of its steps away from square idx.
animal_attacked_by(b, player, idx) ==
    \E from_idx \in 0..(animal_NUM_SQUARES - 1) :
        /\ b.squares[from_idx] # None
        /\ b.squares[from_idx].owner = player
        /\ \E d \in Range(animal_PIECE_MOVES(b.squares[from_idx].piece_type)) :
              /\ (from_idx \div animal_COLS) + (IF player = GOTE THEN -d[1] ELSE d[1])
                    = idx \div animal_COLS
              /\ (from_idx % animal_COLS) + d[2] = idx % animal_COLS

\* C8: with both lions on the board, a legal move onto the opponent's lion
\* ends the game and the mover wins.
C8_LionCapture ==
    (variant = "animal" /\ animal_lions_present(board)) =>
        \A move \in Range(animal_state_legal_moves(state)) :
            (animal_is_board_move(move)
             /\ animal_to_idx(move) = animal_find_lion(board, opponent(current_player)))
                => LET successor == animal_state_apply_move(state, move)
                   IN  /\ animal_is_terminal(successor)
                       /\ animal_winner(successor) = current_player

\* A lion has just been captured: the capturer holds it in hand and has won.
C8_Witness ==
    /\ variant = "animal"
    /\ last_move # -1
    /\ animal_find_lion(board, current_player) = NoIndex
    /\ LION \in Range(board.hands[opponent(current_player) + 1])
    /\ animal_winner(state) = opponent(current_player)
    /\ animal_is_terminal(state)

\* C9: a lion move onto the opponent's back rank that leaves both lions on
\* the board wins for the mover when no opposing piece reaches the lion's
\* new square, and leaves the game undecided when one does.
C9_TryRule ==
    (variant = "animal" /\ animal_lions_present(board)) =>
        \A move \in Range(animal_state_legal_moves(state)) :
            LET successor == animal_state_apply_move(state, move)
            IN  (/\ animal_is_board_move(move)
                 /\ board.squares[animal_from_idx(move)] = Piece(LION, current_player)
                 /\ animal_to_idx(move) \div animal_COLS = animal_far_rank(current_player)
                 /\ animal_lions_present(successor.board))
                    => IF animal_attacked_by(successor.board, opponent(current_player),
                                             animal_to_idx(move))
                       THEN animal_winner(successor) = NoWinner
                       ELSE animal_winner(successor) = current_player

\* The first player's lion has just stepped onto row 0 where nothing can
\* take it and the first player has won, while in the position before, the
\* same lion could also step onto a square of row 0 where it can be taken.
C9_Witness ==
    /\ variant = "animal"
    /\ last_move # -1
    /\ animal_is_board_move(last_move)
    /\ current_player = GOTE
    /\ animal_lions_present(board)
    /\ board.squares[animal_to_idx(last_move)] = Piece(LION, SENTE)
    /\ animal_to_idx(last_move) \div animal_COLS = 0
    /\ animal_from_idx(last_move) \div animal_COLS = 1
    /\ animal_winner(state) = SENTE
    /\ \E idx \in 0..(animal_COLS - 1) :
          /\ idx # animal_to_idx(last_move)
          /\ animal_attacked_by(board, GOTE, idx)
          /\ \/ board.squares[idx] = None
             \/ board.squares[idx].owner = GOTE

\* C10: in both variants a state is terminal exactly when it has a winner,
\* and a side to move without a legal move, both royal pieces being on the
\* board, has lost.
C10_TerminalIffWinner ==
    /\ variant = "full" =>
          /\ full_is_terminal(state) <=> full_winner(state) # NoWinner
          /\ (full_kings_present(board) /\ Len(full_state_legal_moves(state)) = 0)
                => full_winner(state) = opponent(current_player)
    /\ variant = "animal" =>
          /\ animal_is_terminal(state) <=> animal_winner(state) # NoWinner
          /\ (animal_lions_present(board)
              /\ Len(animal_state_legal_moves(state)) = 0)
                => animal_winner(state) = opponent(current_player)

\* A move has left the side to move without a legal move although it is not
\* in check and both kings stand: the game is over and the mover has won.
C10_Witness ==
    /\ variant = "full"
    /\ last_move # -1
    /\ full_kings_present(board)
    /\ Len(full_state_legal_moves(state)) = 0
    /\ ~full_is_in_check(board, current_player)
    /\ full_is_terminal(state)
    /\ full_winner(state) = opponent(current_player)

C12_IndicesInRangeNoDuplicates ==
    /\ variant = "full" =>
          LET moves == legal
          IN  /\ \A i \in 1..Len(moves) : 0 <= moves[i] /\ moves[i] < full_ACTION_SPACE
              /\ \A i, j \in 1..Len(moves) : moves[i] = moves[j] => i = j
    /\ variant = "animal" =>
          LET moves == animal_state_legal_moves(state)
          IN  /\ \A i \in 1..Len(moves) : 0 <= moves[i] /\ moves[i] < animal_ACTION_SPACE
              /\ \A i, j \in 1..Len(moves) : moves[i] = moves[j] => i = j

\* The list of a full-shogi position holds plain board moves, promoting
\* moves and drops, among them moves of a horse and of a dragon.
C12_Witness ==
    /\ variant = "full"
    /\ \E i, j, k \in 1..Len(legal) :
          /\ legal[i] < full_PROMO_MOVE_BASE
          /\ board.squares[full_from_idx(legal[i])].piece_type = HORSE
          /\ legal[j] < full_PROMO_MOVE_BASE
          /\ board.squares[full_from_idx(legal[j])].piece_type = DRAGON
          /\ legal[k] >= full_DROP_MOVE_BASE
    /\ \E i \in 1..Len(legal) :
          legal[i] >= full_PROMO_MOVE_BASE /\ legal[i] < full_DROP_MOVE_BASE

(***************************************************************************)
(* Properties of the move codec.                                           *)
(***************************************************************************)
\* decode_move gives squares as (row, col); the description is recovered
\* when they name the squares that were encoded.
full_recovers(m, out) ==
    /\ out.type = m.type
    /\ out.to[1] \in 0..(full_ROWS - 1) /\ out.to[2] \in 0..(full_COLS - 1)
    /\ out.to[1] * full_COLS + out.to[2] = m.to_idx
    /\ m.type = "board" =>
          /\ out.from[1] \in 0..(full_ROWS - 1) /\ out.from[2] \in 0..(full_COLS - 1)
          /\ out.from[1] * full_COLS + out.from[2] = m.from_idx
          /\ out.promote = m.promote
    /\ m.type = "drop" => out.piece_type = m.piece_type

animal_recovers(m, out) ==
    /\ out.type = m.type
    /\ out.to[1] \in 0..(animal_ROWS - 1) /\ out.to[2] \in 0..(animal_COLS - 1)
    /\ out.to[1] * animal_COLS + out.to[2] = m.to_idx
    /\ m.type = "board" =>
          /\ out.from[1] \in 0..(animal_ROWS - 1) /\ out.from[2] \in 0..(animal_COLS - 1)
          /\ out.from[1] * animal_COLS + out.from[2] = m.from_idx
    /\ m.type = "drop" => out.piece_type = m.piece_type

full_layout(m, index) ==
    IF m.type = "drop" THEN 13122 <= index /\ index < 13689
    ELSE IF m.promote THEN 6561 <= index /\ index < 13122
    ELSE 0 <= index /\ index < 6561

animal_layout(m, index) ==
    IF m.type = "drop" THEN 144 <= index /\ index < 180
    ELSE 0 <= index /\ index < 144

\* As many indices as move descriptions: no two descriptions share one.
full_encode_injective ==
    Cardinality({full_encode(m) : m \in full_MoveDescriptions})
        = Cardinality(full_MoveDescriptions)

animal_encode_injective ==
    Cardinality({animal_encode(m) : m \in animal_MoveDescriptions})
        = Cardinality(animal_MoveDescriptions)

\* C13: for every board move (from, to, promote) and every drop (kind, to)
\* of either variant the index lies in the range of its family, decoding it
\* recovers the move, and distinct moves have distinct indices.
C13_CodecRoundTrip ==
    /\ variant = "full" =>
          /\ codec.index # NoIndex => full_layout(codec.input, codec.index)
          /\ codec.output.type # "none" => full_recovers(codec.input, codec.output)
          /\ full_encode_injective
    /\ variant = "animal" =>
          /\ codec.index # NoIndex => animal_layout(codec.input, codec.index)
          /\ codec.output.type # "none" => animal_recovers(codec.input, codec.output)
          /\ animal_encode_injective

\* The last index of full shogi, a ROOK dropped on the last square, has been
\* encoded and decoded.
C13_Witness ==
    /\ variant = "full"
    /\ codec.input = [type |-> "drop", piece_type |-> ROOK,
                      to_idx |-> full_NUM_SQUARES - 1]
    /\ codec.index = full_ACTION_SPACE - 1
    /\ codec.output.type = "drop"

(***************************************************************************)
(* Properties of the animal-shogi hands, drops and promotion.              *)
(***************************************************************************)
\* Number of positions of the list that hold x.
animal_occurrences(moves, x) == Cardinality({i \in 1..Len(moves) : moves[i] = x})

\* C14: the legal moves of the player to move hold the drop of kind k on
\* square q exactly when k is in that player's hand and q is empty, whatever
\* the rank or column of q, and hold it once however many copies are in hand.
C14_AnimalDrops ==
    variant = "animal" =>
        LET moves == animal_legal_moves(board, current_player)
        IN  \A k \in Range(animal_HAND_PIECE_TYPES), q \in 0..(animal_NUM_SQUARES - 1) :
                LET drop == animal_encode_drop_move(k, q)
                    expected == /\ k \in Range(board.hands[current_player + 1])
                                /\ board.squares[q] = None
                IN  animal_occurrences(moves, drop) = IF expected THEN 1 ELSE 0

\* The player to move holds two chicks and may drop one on its own far rank.
C14_Witness ==
    /\ variant = "animal"
    /\ animal_occurrences(board.hands[current_player + 1], CHICK) = 2
    /\ \E c \in 0..(animal_COLS - 1) :
          animal_encode_drop_move(CHICK, animal_far_rank(current_player) * animal_COLS + c)
              \in Range(legal)

\* C15: both hands hold only CHICK, GIRAFFE and ELEPHANT in every state of a
\* game of animal shogi, the terminal ones included.
C15_AnimalHandKinds ==
    variant = "animal" =>
        \A p \in Player :
            Range(board.hands[p + 1]) \subseteq {CHICK, GIRAFFE, ELEPHANT}

(***************************************************************************)
(* Properties of the full-shogi hands.                                     *)
(***************************************************************************)
full_is_capture(b, player, move) ==
    /\ ~full_is_drop(move)
    /\ b.squares[full_to_idx(move)] # None
    /\ b.squares[full_to_idx(move)].owner = opponent(player)

full_hand_count(hand, kind) == Cardinality({i \in 1..Len(hand) : hand[i] = kind})

full_base_kind(kind) ==
    CASE kind = PRO_PAWN -> PAWN [] kind = PRO_LANCE -> LANCE
      [] kind = PRO_KNIGHT -> KNIGHT [] kind = PRO_SILVER -> SILVER
      [] kind = HORSE -> BISHOP [] kind = DRAGON -> ROOK
      [] OTHER -> kind

\* C16: both hands hold only the seven droppable kinds, in ascending order,
\* and a legal capture adds the base kind of the captured piece to the
\* capturer's hand, leaving the hand sorted and of droppable kinds.
C16_FullHandKinds ==
    variant = "full" =>
        /\ \A p \in Player :
              LET hand == board.hands[p + 1]
              IN  /\ Range(hand) \subseteq {PAWN, LANCE, KNIGHT, SILVER, GOLD, BISHOP, ROOK}
                  /\ \A i \in 1..(Len(hand) - 1) : hand[i] <= hand[i + 1]
        /\ \A move \in Range(legal) :
              full_is_capture(board, current_player, move) =>
                  LET captured == board.squares[full_to_idx(move)].piece_type
                      before == board.hands[current_player + 1]
                      after == full_apply_move(board, current_player, move)
                                   .hands[current_player + 1]
                  IN  /\ Len(after) = Len(before) + 1
                      /\ \A kind \in 0..13 :
                            full_hand_count(after, kind) =
                                full_hand_count(before, kind)
                                + (IF kind = full_base_kind(captured) THEN 1 ELSE 0)
                      /\ \A i \in 1..(Len(after) - 1) : after[i] <= after[i + 1]

\* The player to move holds pieces of two kinds and may capture a promoted
\* piece.
C16_Witness ==
    /\ variant = "full"
    /\ Cardinality(Range(board.hands[current_player + 1])) >= 2
    /\ \E move \in Range(legal) :
          /\ full_is_capture(board, current_player, move)
          /\ board.squares[full_to_idx(move)].piece_type
                 \in {PRO_PAWN, PRO_LANCE, PRO_KNIGHT, PRO_SILVER, HORSE, DRAGON}

\* C17: a legal board move leaves on its target square a HEN of the mover
\* when the moved piece is a CHICK arriving on the mover's far rank, and a
\* piece of the moved kind otherwise; a legal drop leaves the dropped kind;
\* a promoting chick move has one index in the list.
C17_AnimalPromotion ==
    variant = "animal" =>
        LET moves == animal_legal_moves(board, current_player)
        IN  \A i \in 1..Len(moves) :
                LET move == moves[i]
                    placed == animal_apply_move(board, current_player, move)
                                  .squares[animal_to_idx(move)]
                IN  IF animal_is_board_move(move)
                    THEN LET piece == board.squares[animal_from_idx(move)]
                             promotes ==
                                 /\ piece.piece_type = CHICK
                                 /\ animal_to_idx(move) \div animal_COLS
                                        = animal_far_rank(current_player)
                         IN  /\ placed = Piece(IF promotes THEN HEN ELSE piece.piece_type,
                                               current_player)
                             /\ promotes => animal_occurrences(moves, move) = 1
                    ELSE placed = Piece(animal_decode_move(move).piece_type,
                                        current_player)

\* The player to move has a chick one step from its far rank and a chick in
\* hand that may be dropped on that rank.
C17_Witness ==
    /\ variant = "animal"
    /\ \E i \in 1..Len(legal) :
          /\ animal_is_board_move(legal[i])
          /\ board.squares[animal_from_idx(legal[i])].piece_type = CHICK
          /\ animal_to_idx(legal[i]) \div animal_COLS = animal_far_rank(current_player)
    /\ \E c \in 0..(animal_COLS - 1) :
          animal_encode_drop_move(CHICK, animal_far_rank(current_player) * animal_COLS + c)
              \in Range(legal)

(***************************************************************************)
(* Properties of apply_move on indices outside legal_moves().              *)
(***************************************************************************)
\* C18: apply_move called with an index that is not among the legal moves
\* of the state raises an error and returns no successor state.
C18_InvalidAction == outcome # "returned"

(***************************************************************************)
(* Properties of MCTS.search.                                              *)
(***************************************************************************)
\* C19: the vector search returns for a non-terminal root and at least one
\* simulation has one entry per action, is zero at every index that is not
\* a legal move of the root, the visit counts of the root's children sum to
\* num_simulations, and the entries of the legal moves are the weights
\* visit_count^(1/temperature) divided by their sum (at temperature 0: one on
\* a most-visited child, zero elsewhere), so that they sum to one.
C19_SearchDistribution ==
    (mcts.phase = "done" /\ ~game_is_terminal(state)
        /\ mcts.config.num_simulations >= 1) =>
        LET probs == mcts.action_probs
            moves == game_legal_moves(state)
            n(move) == mcts.tree[<<move>>].visit_count
            temperature == mcts.config.temperature
        IN  /\ Len(probs) = game_action_space_size
            /\ \A i \in 1..Len(probs) :
                  /\ probs[i][2] > 0
                  /\ (i - 1) \notin Range(moves) => probs[i][1] = 0
            /\ SumSeq([k \in 1..Len(moves) |-> n(moves[k])])
                   = mcts.config.num_simulations
            /\ IF temperature[1] = 0
               THEN \E k \in 1..Len(moves) :
                       /\ \A j \in 1..Len(moves) : n(moves[j]) <= n(moves[k])
                       /\ probs[moves[k] + 1] = <<1, 1>>
                       /\ \A j \in 1..Len(moves) :
                             j # k => probs[moves[j] + 1][1] = 0
               ELSE LET w(move) == Pow(n(move), temperature[2] \div temperature[1])
                        total == SumSeq([k \in 1..Len(moves) |-> w(moves[k])])
                    IN  /\ total > 0
                        /\ \A k \in 1..Len(moves) :
                              probs[moves[k] + 1][1] * total
                                  = w(moves[k]) * probs[moves[k] + 1][2]
                        /\ SumSeq([k \in 1..Len(moves) |->
                                      (probs[moves[k] + 1][1] * total)
                                          \div probs[moves[k] + 1][2]]) = total

\* A search of two simulations from a live animal-shogi position ended with
\* two children visited once each.
C19_Witness ==
    /\ mcts.phase = "done"
    /\ variant = "animal"
    /\ ~game_is_terminal(state)
    /\ mcts.config.num_simulations = 2
    /\ mcts.config.temperature[1] # 0
    /\ Cardinality({i \in 1..Len(mcts.action_probs) :
                       mcts.action_probs[i][1] # 0}) = 2

\* C20: the vector search returns for a terminal root has one entry per
\* action and every entry is zero, whatever the configuration.
C20_TerminalRootZero ==
    (mcts.phase = "done" /\ game_is_terminal(state)) =>
        /\ Len(mcts.action_probs) = game_action_space_size
        /\ \A i \in 1..Len(mcts.action_probs) : mcts.action_probs[i][1] = 0

(***************************************************************************)
(* Properties of engine/minimax.py.                                        *)
(***************************************************************************)
\* C21: negamax returns best_move = -1 exactly when the state is terminal
\* or depth is 0; on a state that is not terminal, with depth >= 1, the
\* move returned is one of state.legal_moves().
C21_NegamaxBestMove ==
    minimax.phase = "returned" =>
        LET leaf == game_is_terminal(state) \/ minimax.depth = 0
        IN  /\ (minimax.best_move = -1) <=> leaf
            /\ ~leaf => minimax.best_move \in Range(game_legal_moves(state))

C21_Witness ==
    /\ minimax.phase = "returned"
    /\ ~game_is_terminal(state)
    /\ minimax.depth >= 1
    /\ minimax.best_move \in Range(legal)
    /\ minimax.best_move # legal[1]

C23_StaticEvaluator ==
    minimax.phase = "evaluated" =>
        LET value(pt) ==
                IF variant = "animal"
                THEN CASE pt = CHICK -> 1
                       [] pt \in {GIRAFFE, ELEPHANT} -> 3
                       [] pt = LION -> 100
                       [] pt = HEN -> 5
                ELSE CASE pt = PAWN -> 1
                       [] pt \in {LANCE, KNIGHT, SILVER, GOLD, BISHOP, ROOK} -> 3
                       [] pt = KING -> 100
                       [] OTHER -> 5
            n == Cardinality(DOMAIN board.squares)
            material(p) ==
                SumSeq([i \in 1..n |->
                           IF board.squares[i - 1] # None
                              /\ board.squares[i - 1].owner = p
                           THEN value(board.squares[i - 1].piece_type) ELSE 0])
                + SumSeq([k \in 1..Len(board.hands[p + 1]) |->
                             value(board.hands[p + 1][k])])
        IN  IF game_is_terminal(state)
            THEN /\ game_winner(state) = current_player
                    => minimax.score = 1000
                 /\ game_winner(state) = opponent(current_player)
                    => minimax.score = -1000
            ELSE minimax.score = material(current_player)
                                 - material(opponent(current_player))

(***************************************************************************)
(* Properties of training/self_play.py.                                    *)
(***************************************************************************)
\* C24: play_game records one example per ply played, tagged with the
\* player to move at that ply; once the game is over an example of player p
\* gets the value target +1 if the final state's winner is p, -1 if it is
\* p's opponent and 0 if there is no winner, so the two players' examples
\* carry opposite signs whenever there is a winner.
C24_ValueTargets ==
    LET n == selfplay.move_count
        mover(i) == IF (n - (i - 1)) % 2 = 0 THEN current_player
                    ELSE opponent(current_player)
        winner == game_winner(state)
    IN  /\ Len(selfplay.examples) = n
        /\ \A i \in 1..n :
              /\ selfplay.examples[i].ply = i - 1
              /\ selfplay.examples[i].player = mover(i)
        /\ selfplay.phase = "returned" =>
              /\ Len(selfplay.result) = n
              /\ \A i \in 1..n :
                    /\ selfplay.result[i].ply = i - 1
                    /\ selfplay.result[i].value_target =
                          (IF winner = NoWinner THEN 0
                           ELSE IF winner = mover(i) THEN 1 ELSE -1)
              /\ \A i, j \in 1..n :
                    (winner # NoWinner /\ mover(i) # mover(j))
                    => selfplay.result[i].value_target
                       = -(selfplay.result[j].value_target)

C24_Witness ==
    /\ selfplay.phase = "returned"
    /\ game_winner(state) = GOTE
    /\ Len(selfplay.result) >= 4
    /\ selfplay.result[1].value_target = -1
    /\ selfplay.result[2].value_target = 1

\* C25: play_game runs to its return, after at most 200 plies and with at
\* most 200 examples; while the game is not over a move can be selected; a
\* ply is only played (searched, recorded and applied) from a state that
\* is not terminal; a game still not terminal after 200 plies returns the
\* value target 0 in every example.
C25_MoveCap ==
    /\ [](/\ selfplay.move_count <= 200
          /\ Len(selfplay.examples) <= 200
          /\ Len(selfplay.result) <= 200
          /\ (selfplay.phase = "playing" /\ ~game_is_terminal(state))
             => select_move(selfplay.network, state, selfplay.move_count) # {}
          /\ (selfplay.phase = "returned" /\ ~game_is_terminal(state))
             => /\ selfplay.move_count = 200
                /\ \A i \in 1..Len(selfplay.result) :
                      selfplay.result[i].value_target = 0)
    /\ [][(selfplay'.examples # selfplay.examples \/ board' # board)
          => ~game_is_terminal(state)]_vars
    /\ <>(selfplay.phase = "returned")

C25_Witness ==
    /\ selfplay.phase = "returned"
    /\ ~game_is_terminal(state)
    /\ Len(selfplay.result) = 200
    /\ selfplay.result[200].value_target = 0

(***************************************************************************)
(* Properties of training/arena.py.                                        *)
(***************************************************************************)
\* C26: pit returns counters that add up to num_games; every game is
\* counted in exactly one of p1_wins, p2_wins and draws, and no game plays
\* more than max_moves plies.
C26_ArenaTotals ==
    LET counted(c) ==
            Cardinality({i \in 1..Len(arena.log) : arena.log[i].counted = c})
    IN  /\ Len(arena.log) = arena.game_idx
        /\ arena.p1_wins + arena.p2_wins + arena.draws = arena.game_idx
        /\ arena.p1_wins = counted("p1_wins")
        /\ arena.p2_wins = counted("p2_wins")
        /\ arena.draws = counted("draws")
        /\ arena.move_count <= arena.max_moves
        /\ \A i \in 1..Len(arena.log) : arena.log[i].plies <= arena.max_moves
        /\ arena.phase = "returned" =>
              arena.p1_wins + arena.p2_wins + arena.draws = arena.num_games

C26_Witness ==
    /\ arena.phase = "returned"
    /\ arena.num_games = 2
    /\ arena.p1_wins = 1
    /\ arena.draws = 1
    /\ arena.log[2].plies = arena.max_moves

\* C27: in game g (counted from 0) player 1's selector is called at the
\* states with current_player = 0 when g is even and at those with
\* current_player = 1 when g is odd; a game whose final state has the
\* winner w is counted for the selector that sat in seat w, and a game is
\* counted as a draw only when its final state has no winner.
C27_SeatsAndAttribution ==
    /\ arena.caller # "none" =>
          LET seat == opponent(current_player)
          IN  (arena.caller = "player1_fn")
              <=> (seat = (IF arena.game_idx % 2 = 0 THEN 0 ELSE 1))
    /\ \A i \in 1..Len(arena.log) :
          LET g == i - 1
              game == arena.log[i]
              p1_seat == IF g % 2 = 0 THEN 0 ELSE 1
          IN  /\ game.p1_is_sente = (g % 2 = 0)
              /\ game.winner # NoWinner =>
                    game.counted = (IF game.winner = p1_seat THEN "p1_wins"
                                    ELSE "p2_wins")
              /\ game.counted = "draws" => game.winner = NoWinner

C29_EventOrder ==
    /\ [](LET n == trainer.num_generations
              key(r) ==
                  IF r.type = "phase" THEN <<r.phase, r.generation, r.total>>
                  ELSE IF r.type = "generation_done"
                       THEN <<r.type, r.generation, r.total>>
                  ELSE <<r.type, 0, 0>>
              emitted ==
                  [i \in 1..Len(trainer.emitted) |-> key(trainer.emitted[i])]
              full ==
                  Flatten([g \in 1..n |->
                              << <<"self_play", g, n>>, <<"training", g, n>>,
                                 <<"arena", g, n>>,
                                 <<"generation_done", g, n>> >>])
                  \o << <<"done", 0, 0>> >>
              IsPrefix(a, b) == Len(a) <= Len(b) /\ SubSeq(b, 1, Len(a)) = a
          IN  /\ \/ IsPrefix(emitted, full)
                 \/ /\ emitted # <<>>
                    /\ emitted[Len(emitted)] = <<"stopped", 0, 0>>
                    /\ IsPrefix(SubSeq(emitted, 1, Len(emitted) - 1), full)
              /\ trainer.received \o trainer.progress_queue
                 = trainer.emitted)
    /\ [][LET IsPrefix(a, b) == Len(a) <= Len(b) /\ SubSeq(b, 1, Len(a)) = a
          IN  /\ IsPrefix(trainer.emitted, trainer'.emitted)
              /\ IsPrefix(trainer.received, trainer'.received)]_vars

C29_Witness ==
    /\ trainer.num_generations = 2
    /\ Len(trainer.emitted) = 9
    /\ trainer.emitted[9].type = "done"
    /\ trainer.emitted[8].type = "generation_done"
    /\ trainer.emitted[8].generation = 2
    /\ trainer.received = trainer.emitted

\* C30: `stopped` is put only when stop_event is set, at most once and as
\* the last record, with run_training returned; `done` and `stopped` never
\* both appear; once `stopped` is put no record is added, no network is
\* adopted and no weights are written.
C30_StoppedFinal ==
    /\ [](LET types == [i \in 1..Len(trainer.emitted) |->
                          trainer.emitted[i].type]
          IN  "stopped" \in Range(types) =>
                 /\ Count(types, "stopped") = 1
                 /\ types[Len(types)] = "stopped"
                 /\ trainer.stop_event
                 /\ trainer.pc = "returned"
                 /\ "done" \notin Range(types))
    /\ [][(\E i \in 1..Len(trainer.emitted) :
              trainer.emitted[i].type = "stopped")
          => /\ trainer'.emitted = trainer.emitted
             /\ trainer'.best_network = trainer.best_network
             /\ trainer'.model_file = trainer.model_file
             /\ trainer'.log = trainer.log
             /\ trainer'.pc = trainer.pc]_vars

C30_Witness ==
    /\ Len(trainer.emitted) = 7
    /\ trainer.emitted[7].type = "stopped"
    /\ trainer.emitted[6].type = "phase"
    /\ trainer.emitted[6].phase = "training"
    /\ trainer.received = trainer.emitted
    /\ trainer.pc = "returned"

\* C31: run_training reads stop_event before self-play, before training and
\* before the arena of every generation and starts a phase only after a
\* reading that found it unset; a reading that finds it set puts `stopped`
\* and returns.  So the records put after stop_event was set are at most one
\* phase record (the phase whose reading came just before), the
\* generation_done of a generation whose arena was under way, and the final
\* `stopped` or `done`; and run_training does return, after which it does
\* nothing more.
C31_CancellationPolled ==
    /\ [](trainer.records_at_stop # NoIndex =>
             LET later == SubSeq(trainer.emitted, trainer.records_at_stop + 1,
                                 Len(trainer.emitted))
                 kinds == [i \in 1..Len(later) |->
                              IF later[i].type = "phase" THEN later[i].phase
                              ELSE later[i].type]
                 phases == SelectSeq(later, LAMBDA r : r.type = "phase")
                 started == {<<>>, <<"self_play">>, <<"training">>,
                             <<"arena">>, <<"arena", "generation_done">>,
                             <<"generation_done">>}
                 ended == {<<>>, <<"stopped">>, <<"done">>}
             IN  /\ Len(phases) <= 1
                 /\ \E s \in started, e \in ended : kinds = s \o e)
    /\ [][/\ trainer'.pc \in {"self_play", "training", "arena"}
             /\ trainer'.pc # trainer.pc
          => /\ trainer.pc \in DOMAIN CheckPoints
             /\ CheckPoints[trainer.pc] = trainer'.pc
             /\ ~trainer.stop_event
             /\ trainer'.emitted = trainer.emitted]_vars
    /\ [][/\ trainer.stop_event
             /\ trainer.pc \in DOMAIN CheckPoints
             /\ trainer'.pc # trainer.pc
          => /\ trainer'.pc = "returned"
             /\ trainer'.emitted
                = Append(trainer.emitted,
                         IF trainer.pc = "loop"
                            /\ trainer.generation = trainer.num_generations
                         THEN [type |-> "done"] ELSE [type |-> "stopped"])
         ]_vars
    /\ [][/\ Len(trainer'.emitted) > Len(trainer.emitted)
             /\ trainer'.emitted[Len(trainer.emitted) + 1].type = "phase"
          => trainer'.emitted[Len(trainer.emitted) + 1].phase = trainer.pc
         ]_vars
    /\ <>(trainer.pc = "returned")

C31_Witness ==
    /\ trainer.records_at_stop = 5
    /\ Len(trainer.emitted) = 7
    /\ trainer.emitted[6].type = "phase"
    /\ trainer.emitted[6].phase = "training"
    /\ trainer.emitted[6].generation = 2
    /\ trainer.emitted[7].type = "stopped"
    /\ trainer.pc = "returned"

\* C32: no step changes the weights of the object that is the best network;
\* the only object whose weights are changed is the challenger, made in the
\* training phase as a copy of the best network and trained there; the best
\* network changes only at the decision that ends a generation's arena, to
\* that generation's challenger.
C32_BestNetworkImmutable ==
    [][LET best == trainer.best_network
           known == 1..Len(trainer.networks)
       IN  /\ Len(trainer'.networks) >= Len(trainer.networks)
           /\ trainer'.networks[best + 1].weights
              = trainer.networks[best + 1].weights
           /\ \A n \in known :
                 trainer'.networks[n].weights = trainer.networks[n].weights
           /\ Len(trainer'.networks) > Len(trainer.networks)
              => /\ trainer.pc = "training"
                 /\ Len(trainer'.networks) = Len(trainer.networks) + 1
                 /\ trainer'.new_network = Len(trainer.networks)
                 /\ trainer'.new_network # best
                 /\ trainer'.networks[trainer'.new_network + 1].weights
                    = Append(trainer.networks[best + 1].weights,
                             trainer.generation + 1)
           /\ trainer.pc = "training" /\ trainer'.pc # trainer.pc
              => Len(trainer'.networks) > Len(trainer.networks)
           /\ trainer'.best_network # best
              => /\ trainer.pc = "arena"
                 /\ trainer'.adopted
                 /\ trainer'.best_network = trainer.new_network
      ]_vars

C32_Witness ==
    /\ trainer.pc = "after_training"
    /\ trainer.generation = 1
    /\ trainer.best_network = 1
    /\ trainer.new_network = 2
    /\ trainer.networks[1].weights = <<>>
    /\ trainer.networks[2].weights = <<1>>
    /\ trainer.networks[3].weights = <<1, 2>>

\* C33: the file at model_path is never partially written where a reader
\* can see it: the file, and whatever _get_ai_fn loads from it, is always
\* the complete state_dict of one network.
C33_AtomicPersistence ==
    /\ trainer.model_file # PartialFile
    /\ trainer.loaded # PartialFile

(***************************************************************************)
(* Alpha-beta pruning in engine/minimax.py.                                *)
(***************************************************************************)
\* The value of negamax without a window: the same scores at terminal states
\* and at depth 0, and elsewhere the largest negated value of a successor.
RECURSIVE negamax_unpruned(_, _)
negamax_unpruned(s, depth) ==
    IF game_is_terminal(s)
    THEN IF game_winner(s) = NoWinner THEN 0
         ELSE IF game_winner(s) = s.current_player THEN 1000 + depth
         ELSE -(1000 + depth)
    ELSE IF depth = 0 THEN evaluate(s)
    ELSE LET moves == game_legal_moves(s)
             scores == {-negamax_unpruned(game_apply_move(s, moves[i]),
                                          depth - 1) : i \in 1..Len(moves)}
         IN  CHOOSE best \in scores : \A score \in scores : score <= best

\* C35: called with alpha = -inf and beta = +inf, negamax returns the score
\* of the search without any cut-off.
C35_PruningKeepsValue ==
    /\ minimax.phase = "returned"
    /\ minimax.alpha = -Inf
    /\ minimax.beta = Inf
    => minimax.score = negamax_unpruned(state, minimax.depth)

\* A search in which a move of the root was cut short: searched with the
\* window left by the moves before it, it returns another score than without
\* a window.
C35_Witness ==
    /\ minimax.phase = "returned"
    /\ minimax.alpha = -Inf
    /\ minimax.beta = Inf
    /\ minimax.depth >= 2
    /\ ~game_is_terminal(state)
    /\ \E i \in 2..Len(legal) :
          LET before == {-negamax_unpruned(game_apply_move(state, legal[j]),
                                           minimax.depth - 1) : j \in 1..(i - 1)}
              alpha == CHOOSE a \in before : \A b \in before : b <= a
              next_state == game_apply_move(state, legal[i])
          IN  negamax(next_state, minimax.depth - 1, -Inf, -alpha).score
              # negamax_unpruned(next_state, minimax.depth - 1)

(***************************************************************************)
(* Properties of the search tree of engine/mcts.py.                        *)
(***************************************************************************)
\* The state a node stands for: the root's state after the moves of the path.
RECURSIVE mcts_state_at(_, _)
mcts_state_at(s, path) ==
    IF path = <<>> THEN s
    ELSE mcts_state_at(game_apply_move(s, Head(path)), Tail(path))

mcts_child_visits(tree, path) ==
    SumSeq([k \in 1..Len(tree[path].children) |->
               tree[Append(path, tree[path].children[k])].visit_count])

\* C34: during a search the root's visit_count and total_value are 0; from
\* a non-terminal root the visit counts of the root's children add up to
\* the number of simulations run; the children of every node are either
\* none or exactly the legal moves of the node's state, and none where that
\* state is terminal; the visit counts of the children of an expanded node
\* other than the root add up to the node's visit_count - 1.
C34_TreeBookkeeping ==
    mcts.phase # "idle" =>
        LET tree == mcts.tree
            root == tree[<<>>]
        IN  /\ root.visit_count = 0
            /\ root.total_value = 0
            /\ ~game_is_terminal(state) /\ root.children # <<>>
                  => mcts_child_visits(tree, <<>>) = mcts.simulations
            /\ \A path \in DOMAIN tree :
                  LET node == tree[path]
                      s == mcts_state_at(state, path)
                  IN  /\ game_is_terminal(s) => node.children = <<>>
                      /\ node.children # <<>>
                            => node.children = game_legal_moves(s)
                      /\ \A k \in 1..Len(node.children) :
                            Append(path, node.children[k]) \in DOMAIN tree
                      /\ path # <<>> /\ node.children # <<>>
                            => mcts_child_visits(tree, path)
                               = node.visit_count - 1

(***************************************************************************)
(* The callers of apply_move: negamax, MCTS._simulate, play_game and pit.  *)
(***************************************************************************)
\* The search and the training drivers side by side: a call of negamax, a
\* call of MCTS.search (the temperature, which is read only after the last
\* simulation, fixed to 1), a game of play_game or a match of pit of one
\* game with the largest move cap.
SpecDrivers ==
    /\ \/ InitMinimax
       \/ InitMcts /\ mcts.config.temperature = <<1, 1>>
       \/ InitSelfPlay
       \/ InitArena /\ arena.num_games = 1 /\ arena.max_moves = MaxArenaMoves
    /\ [][\/ Evaluate \/ Negamax
          \/ NoDrivers /\ (MctsSearch \/ MctsSimulate \/ MctsFinish)
          \/ SelfPlayMove \/ SelfPlayFinish
          \/ ArenaMove \/ ArenaTally \/ ArenaReturn]_vars

\* The pairs <<state, move>> of the calls state.apply_move(move) that
\* negamax(s, depth, alpha, beta) makes, cut-offs included.
RECURSIVE negamax_applies(_, _, _, _)
RECURSIVE negamax_loop_applies(_, _, _, _, _, _)
negamax_loop_applies(s, depth, moves, i, alpha, beta) ==
    IF i > Len(moves) THEN {}
    ELSE LET move == moves[i]
             next_state == game_apply_move(s, move)
             score == -(negamax(next_state, depth - 1, -beta, -alpha).score)
             new_alpha == IF alpha > score THEN alpha ELSE score
         IN  {<<s, move>>}
             \cup negamax_applies(next_state, depth - 1, -beta, -alpha)
             \cup (IF new_alpha >= beta THEN {}
                   ELSE negamax_loop_applies(s, depth, moves, i + 1,
                                             new_alpha, beta))

negamax_applies(s, depth, alpha, beta) ==
    IF game_is_terminal(s) \/ depth = 0 THEN {}
    ELSE negamax_loop_applies(s, depth, game_legal_moves(s), 1, alpha, beta)

\* A call state.apply_move(move) on a live game with a legal move.
legal_on_live_game(s, move) ==
    /\ ~game_is_terminal(s)
    /\ move \in Range(game_legal_moves(s))

\* C36: every apply_move of negamax, of an MCTS simulation, of play_game and
\* of pit is made on a non-terminal state with one of its legal moves;
\* play_game and pit ask for a move only on a non-terminal state, which has
\* a legal move.
C36_LegalMovesOnLiveGames ==
    /\ [](minimax.phase = "returned" =>
             \A call \in negamax_applies(state, minimax.depth, minimax.alpha,
                                         minimax.beta) :
                legal_on_live_game(call[1], call[2]))
    /\ [](mcts.phase \in {"searching", "done"} =>
             \A path \in DOMAIN mcts.tree :
                path # <<>> /\ mcts.tree[path].visit_count > 0
                => legal_on_live_game(
                       mcts_state_at(state, SubSeq(path, 1, Len(path) - 1)),
                       path[Len(path)]))
    /\ [](/\ selfplay.phase = "playing"
          /\ play_game_continues(state, selfplay.move_count)
          => /\ ~game_is_terminal(state)
             /\ select_move(selfplay.network, state, selfplay.move_count) # {}
             /\ select_move(selfplay.network, state, selfplay.move_count)
                \subseteq Range(legal))
    /\ [][\/ /\ selfplay.phase = "playing"
             /\ selfplay'.move_count # selfplay.move_count
          \/ /\ arena.phase = "playing"
             /\ arena'.caller # "none"
             /\ arena'.move_count # arena.move_count
          => /\ legal_on_live_game(state, last_move')
             /\ legal = game_legal_moves(state)
             /\ state' = game_apply_move(state, last_move')]_vars

\* A game of play_game that has reached a decided position in which the
\* player to move still has legal moves, and has ended there.
C36_Witness ==
    /\ selfplay.phase = "returned"
    /\ selfplay.move_count > 0
    /\ game_is_terminal(state)
    /\ legal # <<>>

(***************************************************************************)
(* Properties of the training session of web/app.py.                       *)
(***************************************************************************)
\* C40: a thread of run_training is started only while none is running,
\* train_start answers 400 exactly while `running` is set, and whenever
\* run_training has put `done` or `stopped` and returned, `running` becomes
\* false (so that train_status says so and train_start is accepted again),
\* whether or not the stream is read.
C40_TrainingSession ==
    /\ [](~trainer.running => trainer.pc \in {"none", "returned"})
    /\ [][/\ trainer'.session # trainer.session
             => /\ ~trainer.running
                /\ trainer.pc \in {"none", "returned"}
                /\ trainer'.running
                /\ trainer'.response = "started"
          /\ trainer'.response = "400" /\ trainer.response # "400"
             => trainer.running /\ trainer'.session = trainer.session
         ]_vars
    /\ [](trainer.pc = "returned" => <>~trainer.running)

(***************************************************************************)
(* Properties of the boards reached by legal play.                         *)
(***************************************************************************)
\* The pieces of a position: the occupied squares and both hands.
pieces_on_squares(b) ==
    Cardinality({idx \in DOMAIN b.squares : b.squares[idx] # None})

pieces_in_play(b) ==
    pieces_on_squares(b) + Len(b.hands[SENTE + 1]) + Len(b.hands[GOTE + 1])

\* The hand `after` is the hand `before` with `change` more copies of `kind`
\* and the same number of every other kind.
hand_differs_by(before, after, kind, change) ==
    \A k \in full_PieceType :
        Count(after, k) = Count(before, k) + (IF k = kind THEN change ELSE 0)

\* C37: the occupied squares and the two hands together hold as many pieces
\* as the starting position in every state reached by legal moves, 8 in
\* animal shogi and 40 in full shogi from the standard positions; a capture
\* takes one piece off the board and adds one piece of its base kind to
\* the capturer's hand, a drop takes one copy of the dropped kind out of
\* the dropper's hand and leaves everything else in the hands as it was,
\* and a board move to an empty square changes no hand.
C37_PieceConservation ==
    /\ [](variant = "animal" =>
             /\ AnimalScenarios[scenario].board = animal_Board
             /\ pieces_in_play(board) = 8)
    /\ [](variant = "full" =>
             /\ pieces_in_play(board)
                = pieces_in_play(FullScenarios[scenario].board)
             /\ FullScenarios[scenario].board = full_Board
                => pieces_in_play(board) = 40)
    /\ [][board' # board =>
            LET mover == current_player
                other == opponent(mover)
                move == IF variant = "full" THEN full_decode_move(last_move')
                        ELSE animal_decode_move(last_move')
                cols == IF variant = "full" THEN full_COLS ELSE animal_COLS
                target == board.squares[move.to[1] * cols + move.to[2]]
            IN  /\ board'.hands[other + 1] = board.hands[other + 1]
                /\ move.type = "drop" =>
                      /\ hand_differs_by(board.hands[mover + 1],
                                         board'.hands[mover + 1],
                                         move.piece_type, -1)
                      /\ pieces_on_squares(board') = pieces_on_squares(board) + 1
                /\ move.type = "board" /\ target # None =>
                      /\ hand_differs_by(
                             board.hands[mover + 1], board'.hands[mover + 1],
                             IF variant = "full"
                             THEN full_base_kind(target.piece_type)
                             ELSE IF target.piece_type = HEN THEN CHICK
                                  ELSE target.piece_type,
                             1)
                      /\ pieces_on_squares(board') = pieces_on_squares(board) - 1
                /\ move.type = "board" /\ target = None =>
                      /\ board'.hands = board.hands
                      /\ pieces_on_squares(board') = pieces_on_squares(board)
         ]_vars

\* A game of full shogi from the standard position in which a bishop was
\* taken by a promoting bishop, the promoted bishop was taken back and a
\* bishop was dropped: 39 pieces on the board and one in a hand.
C37_Witness ==
    /\ variant = "full"
    /\ FullScenarios[scenario].board = full_Board
    /\ move_count = 5
    /\ full_is_drop(last_move)
    /\ pieces_on_squares(board) = 39
    /\ Len(board.hands[SENTE + 1]) + Len(board.hands[GOTE + 1]) = 1

\* C38: in every state of a game of full shogi each player has at most one
\* unpromoted pawn in each column: count_pawns_in_column(p, c) <= 1, and
\* the squares of the column say the same.
C38_NifuBoard ==
    variant = "full" =>
        \A p \in Player : \A c \in 0..(full_COLS - 1) :
            /\ full_count_pawns_in_column(board, p, c) <= 1
            /\ Cardinality(full_own_pawns(board, p, c)) <= 1

\* The second player has just dropped a pawn and now has unpromoted pawns
\* in exactly two columns, one in each.
C38_Witness ==
    /\ variant = "full"
    /\ last_move # -1
    /\ full_is_drop(last_move)
    /\ full_drop_kind(last_move) = PAWN
    /\ current_player = SENTE
    /\ Cardinality({c \in 0..(full_COLS - 1) :
                       Cardinality(full_own_pawns(board, GOTE, c)) = 1}) = 2
    /\ full_own_pawns(board, GOTE, full_to_col(last_move))
       = {full_to_row(last_move)}

\* C39: in every state of a game of full shogi no unpromoted PAWN or LANCE
\* stands on its owner's final rank and no unpromoted KNIGHT on its owner's
\* two farthest ranks.
C39_NoImmobilePiece ==
    variant = "full" =>
        \A idx \in 0..(full_NUM_SQUARES - 1) :
            board.squares[idx] # None =>
                ~full_dead_landing(board.squares[idx].piece_type,
                                   board.squares[idx].owner,
                                   idx \div full_COLS)

\* A knight of the first player has just jumped to row 1 and stands there
\* promoted.
C39_Witness ==
    /\ variant = "full"
    /\ last_move # -1
    /\ ~full_is_drop(last_move)
    /\ full_decode_move(last_move).promote
    /\ current_player = GOTE
    /\ full_to_row(last_move) = 1
    /\ board.squares[full_to_idx(last_move)] = Piece(PRO_KNIGHT, SENTE)

====
